---- MODULE Spec2Model ----
(***************************************************************************)
(* Model of absfs/metricsfs: the pull-model metrics collector (Collector), *)
(* the intercepting filesystem (MetricsFS) and its decorated file handles  *)
(* (MetricsFile).                                                          *)
(*                                                                         *)
(* Counter vectors are functions from label tuples to counts; a label      *)
(* tuple that was never used is absent and reads as 0.  Histograms are     *)
(* modelled by their observation count.  Error values are chains of        *)
(* layers (outermost first); a layer is the set of sentinel names it       *)
(* matches together with the name of its own type, and the nil error is    *)
(* the empty chain.                                                        *)
(***************************************************************************)
EXTENDS Integers, Sequences, FiniteSets, TLC

VARIABLES
    collector,  \* the Collector: config, counters, gauges, tracked paths
    hooks,      \* what the user callbacks OnOperation / OnError have been given;
                \* in the push model, the spans of the user's TracerProvider
    fs,         \* the wrapped filesystem: capabilities, calls it received
    files,      \* the MetricsFile wrappers returned to callers, in order
    ret,        \* what the last completed call returned to its caller
    pc,         \* per caller: position inside a call in progress
    local,      \* per caller: local variables of the call in progress
    budget,     \* calls that may still be started (bounds the run)
    hist        \* history: the Measurements given to recordOperation (their
                \* number and the last one), their paths in order of first
                \* use, the peak of openFiles, Close calls made per handle

vars == <<collector, hooks, fs, files, ret, pc, local, budget, hist>>

----------------------------------------------------------------------------
(* Bounds                                                                  *)

MaxTrackedPaths == 1
MaxOps == 2
MaxSeqOps == 4
MaxPathCalls == 3
MaxFDCalls == 3
MaxBytes == 1
NumThreads == 2
MaxWrap == 2
MaxErrCalls == 2
MaxHookCalls == 2
MaxScenOps == 4
MaxCfgOps == 3
MaxOTelCalls == 2
MaxCasCalls == 3
MaxCollectCalls == 4

Threads == 1..NumThreads

----------------------------------------------------------------------------
(* Program constants                                                       *)

DefaultMaxTrackedPaths == 100
O_WRONLY == 1
O_RDWR == 2
O_APPEND == 1024

----------------------------------------------------------------------------
(* Error values                                                            *)

NoError == <<>>
ErrNotExist == <<{"ErrNotExist"}>>
ErrPermission == <<{"ErrPermission"}>>
ErrDeadlineExceeded == <<{"ErrDeadlineExceeded"}>>
ErrInvalid == <<{"ErrInvalid"}>>
ErrIO == <<{"EIO"}>>

\* fmt.Errorf("...: %w", e) and *os.PathError: a new layer around e
Wrap(layer, e) == <<{layer}>> \o e

\* errors.Is(err, target): some layer of the chain matches the target
errorsIs(err, target) == \E i \in 1..Len(err) : target \in err[i]

\* syscall.Errno values; Errno.Is matches ENOENT with ErrNotExist and EACCES
\* with ErrPermission, and ETIMEDOUT with no sentinel
ENOENT == <<{"ENOENT", "ErrNotExist"}>>
EACCES == <<{"EACCES", "ErrPermission"}>>
ETIMEDOUT == <<{"ETIMEDOUT"}>>
Errnos == {"ENOENT", "EACCES", "ETIMEDOUT"}

\* errors.Join(a, b): one error whose Unwrap gives both
Join(a, b) == <<{"joinError"}>> \o a \o b

\* os.underlyingError: the Err of a *PathError, *LinkError or *SyscallError,
\* one level deep; any other error is its own underlying error
underlyingError(err) ==
    IF err # NoError /\ err[1] \cap {"PathError", "LinkError", "SyscallError"} # {}
    THEN Tail(err) ELSE err

\* os.underlyingErrorIs, behind os.IsNotExist and os.IsPermission: the
\* underlying error is the sentinel itself, or an Errno whose Is accepts it
underlyingErrorIs(err, target) ==
    LET u == underlyingError(err) IN
    \/ u = <<{target}>>
    \/ u # NoError /\ u[1] \cap Errnos # {} /\ target \in u[1]

\* the Timeout() method of an error value, false when it has none:
\* *PathError and *SyscallError ask their Err
RECURSIVE timeoutOf(_)
timeoutOf(err) ==
    IF err = NoError THEN FALSE
    ELSE IF err[1] \cap {"PathError", "SyscallError"} # {}
      THEN timeoutOf(Tail(err))
    ELSE err[1] \cap {"ErrDeadlineExceeded", "ETIMEDOUT"} # {}

\* os.IsTimeout
osIsTimeout(err) == timeoutOf(underlyingError(err))

----------------------------------------------------------------------------
(* Counter vectors                                                         *)

Val(vec, key) == IF key \in DOMAIN vec THEN vec[key] ELSE 0

Inc(vec, key) ==
    IF key \in DOMAIN vec THEN [vec EXCEPT ![key] = @ + 1]
    ELSE vec @@ (key :> 1)

Max(a, b) == IF a >= b THEN a ELSE b

Range(s) == {s[i] : i \in 1..Len(s)}

----------------------------------------------------------------------------
(* Config                                                                  *)

\* Config.applyDefaults: only the fields a zero value of which is replaced
applyDefaults(config) ==
    [config EXCEPT !.MaxTrackedPaths =
        IF @ = 0 THEN DefaultMaxTrackedPaths ELSE @]

DefaultConfig ==
    [EnableLatencyMetrics   |-> TRUE,
     EnableBandwidthMetrics |-> TRUE,
     EnablePathMetrics      |-> FALSE,
     MaxTrackedPaths        |-> DefaultMaxTrackedPaths,
     OnOperation            |-> FALSE,
     OnError                |-> FALSE]

\* NewCollector
NewCollector(config) ==
    [config                |-> applyDefaults(config),
     operationsTotal       |-> <<>>,
     fileOpensTotal        |-> <<>>,
     fileCreatesTotal      |-> 0,
     dirOperationsTotal    |-> <<>>,
     operationDuration     |-> <<>>,
     readDuration          |-> 0,
     writeDuration         |-> 0,
     statDuration          |-> 0,
     openDuration          |-> 0,
     bytesReadTotal        |-> 0,
     bytesWrittenTotal     |-> 0,
     readSizeBytes         |-> <<>>,
     writeSizeBytes        |-> <<>>,
     errorsTotal           |-> <<>>,
     permissionErrorsTotal |-> <<>>,
     notFoundErrorsTotal   |-> <<>>,
     timeoutErrorsTotal    |-> <<>>,
     openFiles             |-> 0,
     openFilesMax          |-> 0,
     openFilesGauge        |-> 0,
     openFilesMaxGauge     |-> 0,
     pathAccessTotal       |-> <<>>,
     trackedPaths          |-> {}]

NoHooks == [onOperation |-> <<>>, onError |-> <<>>]

\* The collector together with the state of the user callbacks and the
\* record of the Measurements: the operators below take and return such a
\* triple.
World == [c |-> collector, hooks |-> hooks,
          m |-> [n |-> hist.n, last |-> hist.last]]

----------------------------------------------------------------------------
(* Collector                                                               *)

\* mutant: the error is compared with the sentinels instead of errors.Is
errorTypeOf_Equality(err) ==
    IF err = ErrNotExist THEN "not_found"
    ELSE IF err = ErrPermission THEN "permission"
    ELSE IF err = ErrDeadlineExceeded THEN "timeout"
    ELSE "unknown"

\* mutant: permission is tested before not-found
errorTypeOf_PermissionFirst(err) ==
    IF errorsIs(err, "ErrPermission") THEN "permission"
    ELSE IF errorsIs(err, "ErrNotExist") THEN "not_found"
    ELSE IF errorsIs(err, "ErrDeadlineExceeded") THEN "timeout"
    ELSE "unknown"

\* recordError: the if / else-if chain deciding the category
errorTypeOf(err) ==
    IF errorsIs(err, "ErrNotExist") THEN "not_found"
    ELSE IF errorsIs(err, "ErrPermission") THEN "permission"
    ELSE IF errorsIs(err, "ErrDeadlineExceeded") THEN "timeout"
    ELSE "unknown"

\* otel.go categorizeError
categorizeError(err) ==
    IF err = NoError THEN ""
    ELSE IF underlyingErrorIs(err, "ErrNotExist") THEN "not_found"
    ELSE IF underlyingErrorIs(err, "ErrPermission") THEN "permission"
    ELSE IF osIsTimeout(err) THEN "timeout"
    ELSE "unknown"

\* c.config.OnError(op, err)
callOnError(w, op, err) ==
    IF w.c.config.OnError
    THEN [w EXCEPT !.hooks.onError = Inc(@, <<op, err>>)]
    ELSE w

\* c.config.OnOperation(Operation{...})
callOnOperation(w, op, path, duration, bytesTransferred, err) ==
    IF w.c.config.OnOperation
    THEN [w EXCEPT !.hooks.onOperation =
            Inc(@, <<op, duration, bytesTransferred, path, err>>)]
    ELSE w

\* mutant: a timeout is counted in its own counter only
countError_TimeoutOwnOnly(c, op, err) ==
    IF errorTypeOf(err) = "timeout"
    THEN [c EXCEPT !.timeoutErrorsTotal = Inc(@, <<op>>)]
    ELSE [c EXCEPT !.errorsTotal = Inc(@, <<op, errorTypeOf(err)>>),
                   !.notFoundErrorsTotal =
                       IF errorTypeOf(err) = "not_found"
                       THEN Inc(@, <<op>>) ELSE @,
                   !.permissionErrorsTotal =
                       IF errorTypeOf(err) = "permission"
                       THEN Inc(@, <<op>>) ELSE @]

\* recordError up to the callback: the counter of the category and
\* errorsTotal
countError(c, op, err) ==
    LET errorType == errorTypeOf(err)
        c1 == IF errorType = "not_found"
                THEN [c EXCEPT !.notFoundErrorsTotal = Inc(@, <<op>>)]
              ELSE IF errorType = "permission"
                THEN [c EXCEPT !.permissionErrorsTotal = Inc(@, <<op>>)]
              ELSE IF errorType = "timeout"
                THEN [c EXCEPT !.timeoutErrorsTotal = Inc(@, <<op>>)]
              ELSE c
    IN  [c1 EXCEPT !.errorsTotal = Inc(@, <<op, errorType>>)]

recordError(w, op, err) ==
    IF err = NoError THEN w
    ELSE callOnError([w EXCEPT !.c = countError(@, op, err)], op, err)

\* recordPathAccess, the read-locked section: membership and size
rpaRead(c, path) ==
    [tracked |-> path \in c.trackedPaths,
     count   |-> Cardinality(c.trackedPaths)]

\* mutant: the limit is tested without regard to the path being tracked
rpaAdmit_IgnoreTracked(c, tracked, count) ==
    count < c.config.MaxTrackedPaths

\* recordPathAccess: "if tracked || count < c.config.MaxTrackedPaths"
rpaAdmit(c, tracked, count) ==
    tracked \/ count < c.config.MaxTrackedPaths

\* recordPathAccess, the write-locked section: c.trackedPaths[path] = true
rpaMark(c, path) ==
    [c EXCEPT !.trackedPaths = @ \cup {path}]

\* recordPathAccess: c.pathAccessTotal.WithLabelValues(path, op).Inc()
rpaInc(c, path, op) ==
    [c EXCEPT !.pathAccessTotal = Inc(@, <<path, op>>)]

\* mutant: every path is admitted, whatever the size of the tracked set
recordPathAccess_NoLimit(c, path, op) ==
    rpaInc(rpaMark(c, path), path, op)

\* recordPathAccess run without interruption
recordPathAccess(c, path, op) ==
    LET r == rpaRead(c, path) IN
    IF rpaAdmit(c, r.tracked, r.count)
    THEN rpaInc(IF ~r.tracked THEN rpaMark(c, path) ELSE c, path, op)
    ELSE c

\* mutant: the global histogram is observed whatever the configuration
recordLatency_Always(c, op) ==
    LET c1 == [c EXCEPT !.operationDuration = Inc(@, <<op>>)] IN
    IF ~c.config.EnableLatencyMetrics THEN c1
    ELSE IF op = "read" THEN [c1 EXCEPT !.readDuration = @ + 1]
    ELSE IF op = "write" THEN [c1 EXCEPT !.writeDuration = @ + 1]
    ELSE IF op = "stat" THEN [c1 EXCEPT !.statDuration = @ + 1]
    ELSE IF op = "open" THEN [c1 EXCEPT !.openDuration = @ + 1]
    ELSE c1

\* recordOperation: the latency block
recordLatency(c, op) ==
    IF c.config.EnableLatencyMetrics
    THEN LET c1 == [c EXCEPT !.operationDuration = Inc(@, <<op>>)] IN
         IF op = "read" THEN [c1 EXCEPT !.readDuration = @ + 1]
         ELSE IF op = "write" THEN [c1 EXCEPT !.writeDuration = @ + 1]
         ELSE IF op = "stat" THEN [c1 EXCEPT !.statDuration = @ + 1]
         ELSE IF op = "open" THEN [c1 EXCEPT !.openDuration = @ + 1]
         ELSE c1
    ELSE c

\* mutant: the bytes of every operation but read count as written
recordBandwidth_AnyOp(c, op, bytesTransferred) ==
    IF c.config.EnableBandwidthMetrics /\ bytesTransferred > 0
    THEN IF op = "read"
           THEN [c EXCEPT !.bytesReadTotal = @ + bytesTransferred,
                          !.readSizeBytes = Inc(@, <<op>>)]
         ELSE [c EXCEPT !.bytesWrittenTotal = @ + bytesTransferred,
                        !.writeSizeBytes = Inc(@, <<op>>)]
    ELSE c

\* recordOperation: the bandwidth block
recordBandwidth(c, op, bytesTransferred) ==
    IF c.config.EnableBandwidthMetrics /\ bytesTransferred > 0
    THEN IF op = "read"
           THEN [c EXCEPT !.bytesReadTotal = @ + bytesTransferred,
                          !.readSizeBytes = Inc(@, <<op>>)]
         ELSE IF op = "write"
           THEN [c EXCEPT !.bytesWrittenTotal = @ + bytesTransferred,
                          !.writeSizeBytes = Inc(@, <<op>>)]
         ELSE c
    ELSE c

\* mutant: every operation is counted as a success
countOperation_AlwaysSuccess(c, op, path, bytesTransferred, err) ==
    LET c2 == [c EXCEPT !.operationsTotal = Inc(@, <<op, "success">>)]
        c3 == recordLatency(c2, op)
        c4 == recordBandwidth(c3, op, bytesTransferred)
    IN  IF c4.config.EnablePathMetrics /\ path # ""
        THEN recordPathAccess(c4, path, op) ELSE c4

\* recordOperation from the operations counter to the path metrics
countOperation(c, op, path, bytesTransferred, err) ==
    LET status == IF err # NoError THEN "error" ELSE "success"
        c2 == [c EXCEPT !.operationsTotal = Inc(@, <<op, status>>)]
        c3 == recordLatency(c2, op)
        c4 == recordBandwidth(c3, op, bytesTransferred)
    IN  IF c4.config.EnablePathMetrics /\ path # ""
        THEN recordPathAccess(c4, path, op) ELSE c4

recordOperation(w, op, path, duration, bytesTransferred, err) ==
    LET w1 == IF err # NoError THEN recordError(w, op, err) ELSE w
        m == [n |-> w.m.n + 1,
              last |-> [op |-> op, path |-> path, bytes |-> bytesTransferred,
                        err |-> err]]
    IN  callOnOperation(
            [w1 EXCEPT !.c = countOperation(@, op, path, bytesTransferred, err),
                       !.m = m],
            op, path, duration, bytesTransferred, err)

\* trackFileOpen: current := c.openFiles.Add(1)
tfoAdd(c) == [c EXCEPT !.openFiles = @ + 1]

\* mutant: the maximum is left alone when current exceeds it by one
tfoDone_OffByOne(current, max) == current <= max + 1

\* trackFileOpen: "if current <= max { break }"
tfoDone(current, max) == current <= max

\* mutant: the compare-and-swap never succeeds
tfoCasOk_Never(c, max) == FALSE

\* trackFileOpen: c.openFilesMax.CompareAndSwap(max, current)
tfoCasOk(c, max) == c.openFilesMax = max

tfoCas(c, max, current) ==
    IF tfoCasOk(c, max) THEN [c EXCEPT !.openFilesMax = current] ELSE c

\* trackFileOpen run without interruption
trackFileOpen(c) ==
    LET c1 == tfoAdd(c)
        current == c1.openFiles
        max == c1.openFilesMax
    IN  IF tfoDone(current, max) THEN c1 ELSE tfoCas(c1, max, current)

\* mutant: the maximum goes down with the count
trackFileClose_LowersMax(c) ==
    [c EXCEPT !.openFiles = @ - 1, !.openFilesMax = @ - 1]

\* mutant: a close that takes the count below zero resets the maximum
trackFileClose_ResetsMax(c) ==
    IF c.openFiles <= 0 THEN [c EXCEPT !.openFiles = @ - 1, !.openFilesMax = 0]
    ELSE [c EXCEPT !.openFiles = @ - 1]

\* mutant: a close takes two from the count
trackFileClose_ByTwo(c) == [c EXCEPT !.openFiles = @ - 2]

\* mutant: the count is clamped at zero
trackFileClose_Clamped(c) ==
    IF c.openFiles > 0 THEN [c EXCEPT !.openFiles = @ - 1] ELSE c

trackFileClose(c) == [c EXCEPT !.openFiles = @ - 1]

recordFileOpen(c, mode) == [c EXCEPT !.fileOpensTotal = Inc(@, <<mode>>)]

recordFileCreate(c) == [c EXCEPT !.fileCreatesTotal = @ + 1]

recordDirOperation(c, op) == [c EXCEPT !.dirOperationsTotal = Inc(@, <<op>>)]

----------------------------------------------------------------------------
(* MetricsFS and MetricsFile: what each method does to the collector       *)

\* "flag & bit != 0" for a single-bit mask
flagHas(flag, bit) == (flag \div bit) % 2 = 1

\* mutant: append is one more branch of the else-if chain
openMode_ElseIf(flag) ==
    IF flagHas(flag, O_WRONLY) THEN "write"
    ELSE IF flagHas(flag, O_RDWR) THEN "readwrite"
    ELSE IF flagHas(flag, O_APPEND) THEN "append"
    ELSE "read"

\* OpenFile: "Determine mode"
openMode(flag) ==
    LET mode == IF flagHas(flag, O_WRONLY) THEN "write"
                ELSE IF flagHas(flag, O_RDWR) THEN "readwrite"
                ELSE "read"
    IN  IF flagHas(flag, O_APPEND) THEN "append" ELSE mode

\* Open, up to the "if err != nil" test
openPre(w, name, duration, err) ==
    LET w1 == recordOperation(w, "open", name, duration, 0, err)
    IN  [w1 EXCEPT !.c = recordFileOpen(@, "read")]

\* OpenFile, up to the "if err != nil" test
openFilePre(w, name, flag, duration, err) ==
    LET w1 == recordOperation(w, "open", name, duration, 0, err)
    IN  [w1 EXCEPT !.c = recordFileOpen(@, openMode(flag))]

\* Create, up to the "if err != nil" test
createPre(w, name, duration, err) ==
    LET w1 == recordOperation(w, "create", name, duration, 0, err)
    IN  [w1 EXCEPT !.c = recordFileOpen(recordFileCreate(@), "write")]

\* newMetricsFile: the wrapper and its effect on the collector
newMetricsFile(f, path) == [file |-> f, path |-> path]

\* MetricsFile.Close after the delegate returned
closePost(w, path, duration, err) ==
    LET w1 == recordOperation(w, "close", path, duration, 0, err)
    IN  [w1 EXCEPT !.c = trackFileClose(@)]

\* A method that records the operation and a directory operation
dirOp(w, op, path, duration, err) ==
    LET w1 == recordOperation(w, op, path, duration, 0, err)
    IN  [w1 EXCEPT !.c = recordDirOperation(@, op)]

----------------------------------------------------------------------------
(* The wrapped filesystem and the caller                                   *)

OptionalMethods == {"Lstat", "Readlink", "Symlink", "Chdir", "Getwd", "Truncate"}

NewFS(caps) ==
    [caps |-> caps, ncalls |-> 0, nfiles |-> 0,
     last |-> [method |-> "", args |-> <<>>, res |-> 0, err |-> NoError]]

NoReturn == [op |-> "", res |-> 0, err |-> NoError]

\* the locals of recordPathAccess and trackFileOpen; for a caller inside
\* trackFileOpen also the number of its compare-and-swaps that failed and
\* of the raises of openFilesMax by other callers since its call began
NoLocal == [op |-> "", path |-> "", tracked |-> FALSE, count |-> 0,
            current |-> 0, max |-> 0, file |-> 0, retries |-> 0,
            raised |-> 0]

\* the file the delegate's Open / OpenFile / Create returns: nil on error
delegateFile(err) == IF err = NoError THEN fs.nfiles + 1 ELSE 0

\* one call of a delegate method, which returned (res, err)
Delegate(method, args, res, err) ==
    fs' = [fs EXCEPT !.ncalls = @ + 1,
                     !.nfiles = IF method \in {"Open", "OpenFile", "Create"}
                                   /\ err = NoError
                                THEN @ + 1 ELSE @,
                     !.last = [method |-> method, args |-> args,
                               res |-> res, err |-> err]]

Commit(w) == collector' = w.c /\ hooks' = w.hooks

Return(op, res, err) ==
    /\ ret' = [op |-> op, res |-> res, err |-> err]
    /\ budget' = budget - 1

\* the paths of Measurements in order of first use
seenAfter(seen, m) ==
    IF m.n = 0 \/ m.last.path = "" \/ m.last.path \in Range(seen)
    THEN seen ELSE Append(seen, m.last.path)

\* history after a call that left the world w, returned a handle (opened)
\* or was a Close of the handle closed (0: neither)
History(w, opened, closed) ==
    hist' = [n      |-> w.m.n,
             last   |-> w.m.last,
             seen   |-> IF w.m.n = hist.n THEN hist.seen
                        ELSE seenAfter(hist.seen, w.m),
             peak   |-> Max(hist.peak, w.c.openFiles),
             closes |-> IF opened THEN Append(hist.closes, 0)
                        ELSE IF closed # 0
                          THEN [hist.closes EXCEPT ![closed] = @ + 1]
                        ELSE hist.closes]

NoMeasurement == [op |-> "", path |-> "", bytes |-> 0, err |-> NoError]

NoHistory == [n |-> 0, last |-> NoMeasurement, seen |-> <<>>, peak |-> 0,
              closes |-> <<>>]

Idle == \A t \in Threads : pc[t] = "idle"

----------------------------------------------------------------------------
(* MetricsFS methods, each as one uninterrupted call                       *)

\* a handle-producing method: pre is the collector after the bookkeeping
\* that precedes the "if err != nil" test
OpenCall(method, op, args, name, err, pre) ==
    /\ budget > 0
    /\ Delegate(method, args, delegateFile(err), err)
    /\ IF err # NoError
       THEN /\ Commit(pre)
            /\ files' = files
            /\ Return(op, 0, err)
            /\ History(pre, FALSE, 0)
       ELSE /\ Commit([pre EXCEPT !.c = trackFileOpen(@)])
            /\ files' = Append(files, newMetricsFile(delegateFile(err), name))
            /\ Return(op, Len(files) + 1, NoError)
            /\ History([pre EXCEPT !.c = trackFileOpen(@)], TRUE, 0)
    /\ UNCHANGED <<pc, local>>

Open(name, d, err) ==
    OpenCall("Open", "open", <<name>>, name, err,
             openPre(World, name, d, err))

OpenFile(name, flag, d, err) ==
    OpenCall("OpenFile", "openfile", <<name, flag>>, name, err,
             openFilePre(World, name, flag, d, err))

Create(name, d, err) ==
    OpenCall("Create", "create", <<name>>, name, err,
             createPre(World, name, d, err))

\* mutant: a not-found error of the delegate is not returned to the caller
PlainCall_Suppress(method, op, args, res, err, w) ==
    /\ budget > 0
    /\ Delegate(method, args, res, err)
    /\ Commit(w)
    /\ Return(op, res, IF errorsIs(err, "ErrNotExist") THEN NoError ELSE err)
    /\ History(w, FALSE, 0)
    /\ UNCHANGED <<files, pc, local>>

\* a method that calls the delegate, records, and returns (res, err)
PlainCall(method, op, args, res, err, w) ==
    /\ budget > 0
    /\ Delegate(method, args, res, err)
    /\ Commit(w)
    /\ Return(op, res, err)
    /\ History(w, FALSE, 0)
    /\ UNCHANGED <<files, pc, local>>

\* mutant: the unsupported call returns ErrInvalid without being recorded
Unsupported_Silent(op, res, w) ==
    /\ budget > 0
    /\ fs' = fs
    /\ Commit(World)
    /\ Return(op, res, ErrInvalid)
    /\ History(World, FALSE, 0)
    /\ UNCHANGED <<files, pc, local>>

\* an optional method the wrapped filesystem does not implement
Unsupported(op, res, w) ==
    /\ budget > 0
    /\ fs' = fs
    /\ Commit(w)
    /\ Return(op, res, ErrInvalid)
    /\ History(w, FALSE, 0)
    /\ UNCHANGED <<files, pc, local>>

Mkdir(name, d, err) ==
    PlainCall("Mkdir", "mkdir", <<name>>, "void", err,
              dirOp(World, "mkdir", name, d, err))

MkdirAll(name, d, err) ==
    PlainCall("MkdirAll", "mkdirall", <<name>>, "void", err,
              dirOp(World, "mkdirall", name, d, err))

Remove(name, d, err) ==
    PlainCall("Remove", "remove", <<name>>, "void", err,
              dirOp(World, "remove", name, d, err))

RemoveAll(name, d, err) ==
    PlainCall("RemoveAll", "removeall", <<name>>, "void", err,
              dirOp(World, "removeall", name, d, err))

Rename(oldpath, newpath, d, err) ==
    PlainCall("Rename", "rename", <<oldpath, newpath>>, "void", err,
              recordOperation(World, "rename", oldpath, d, 0, err))

Stat(name, d, info, err) ==
    PlainCall("Stat", "stat", <<name>>, info, err,
              recordOperation(World, "stat", name, d, 0, err))

Lstat(name, d, info, err) ==
    IF "Lstat" \in fs.caps
    THEN PlainCall("Lstat", "lstat", <<name>>, info, err,
                   recordOperation(World, "lstat", name, d, 0, err))
    ELSE PlainCall("Stat", "lstat", <<name>>, info, err,
                   recordOperation(World, "stat", name, d, 0, err))

Chmod(name, d, err) ==
    PlainCall("Chmod", "chmod", <<name>>, "void", err,
              recordOperation(World, "chmod", name, d, 0, err))

Chown(name, d, err) ==
    PlainCall("Chown", "chown", <<name>>, "void", err,
              recordOperation(World, "chown", name, d, 0, err))

Chtimes(name, d, err) ==
    PlainCall("Chtimes", "chtimes", <<name>>, "void", err,
              recordOperation(World, "chtimes", name, d, 0, err))

Readlink(name, d, target, err) ==
    IF "Readlink" \in fs.caps
    THEN PlainCall("Readlink", "readlink", <<name>>, target, err,
                   recordOperation(World, "readlink", name, d, 0, err))
    ELSE Unsupported("readlink", "",
                   recordOperation(World, "readlink", name, d, 0, ErrInvalid))

Symlink(oldname, newname, d, err) ==
    IF "Symlink" \in fs.caps
    THEN PlainCall("Symlink", "symlink", <<oldname, newname>>, "void", err,
                   recordOperation(World, "symlink", newname, d, 0, err))
    ELSE Unsupported("symlink", "void",
                   recordOperation(World, "symlink", newname, d, 0, ErrInvalid))

Chdir(dir, d, err) ==
    IF "Chdir" \in fs.caps
    THEN PlainCall("Chdir", "chdir", <<dir>>, "void", err,
                   recordOperation(World, "chdir", dir, d, 0, err))
    ELSE Unsupported("chdir", "void",
                   recordOperation(World, "chdir", dir, d, 0, ErrInvalid))

Getwd(d, dir, err) ==
    IF "Getwd" \in fs.caps
    THEN PlainCall("Getwd", "getwd", <<>>, dir, err,
                   recordOperation(World, "getwd", dir, d, 0, err))
    ELSE Unsupported("getwd", "",
                   recordOperation(World, "getwd", "", d, 0, ErrInvalid))

Truncate(name, size, d, err) ==
    IF "Truncate" \in fs.caps
    THEN PlainCall("Truncate", "truncate", <<name, size>>, "void", err,
                   recordOperation(World, "truncate", name, d, size, err))
    ELSE Unsupported("truncate", "void",
                   recordOperation(World, "truncate", name, d, size, ErrInvalid))

----------------------------------------------------------------------------
(* MetricsFile methods, each as one uninterrupted call                     *)

Handles == 1..Len(files)

\* a method of the handle h that calls the delegate file and records op
FileCall(h, method, op, args, res, bytes, d, err) ==
    PlainCall(method, op, <<files[h].file>> \o args, res, err,
              recordOperation(World, op, files[h].path, d, bytes, err))

FileRead(h, d, n, err) ==
    FileCall(h, "File.Read", "read", <<>>, n, n, d, err)

FileReadAt(h, off, d, n, err) ==
    FileCall(h, "File.ReadAt", "read", <<off>>, n, n, d, err)

FileWrite(h, d, n, err) ==
    FileCall(h, "File.Write", "write", <<>>, n, n, d, err)

FileWriteAt(h, off, d, n, err) ==
    FileCall(h, "File.WriteAt", "write", <<off>>, n, n, d, err)

FileWriteString(h, d, n, err) ==
    FileCall(h, "File.WriteString", "write", <<>>, n, n, d, err)

FileSeek(h, offset, d, pos, err) ==
    FileCall(h, "File.Seek", "seek", <<offset>>, pos, 0, d, err)

FileStat(h, d, info, err) ==
    FileCall(h, "File.Stat", "stat", <<>>, info, 0, d, err)

FileSync(h, d, err) ==
    FileCall(h, "File.Sync", "sync", <<>>, "void", 0, d, err)

FileTruncate(h, size, d, err) ==
    FileCall(h, "File.Truncate", "truncate", <<size>>, "void", 0, d, err)

\* Readdir and Readdirnames also record a directory operation
FileDirCall(h, method, n, d, entries, err) ==
    PlainCall(method, "readdir", <<files[h].file, n>>, entries, err,
              dirOp(World, "readdir", files[h].path, d, err))

FileReaddir(h, n, d, entries, err) ==
    FileDirCall(h, "File.Readdir", n, d, entries, err)

FileReaddirnames(h, n, d, entries, err) ==
    FileDirCall(h, "File.Readdirnames", n, d, entries, err)

FileClose(h, d, err) ==
    /\ budget > 0
    /\ Delegate("File.Close", <<files[h].file>>, "void", err)
    /\ Commit(closePost(World, files[h].path, d, err))
    /\ Return("close", "void", err)
    /\ History(closePost(World, files[h].path, d, err), FALSE, h)
    /\ UNCHANGED <<files, pc, local>>

----------------------------------------------------------------------------
(* Spec: one caller, every method of MetricsFS and MetricsFile             *)

Durations == {1}

PathConfig ==
    [DefaultConfig EXCEPT !.EnablePathMetrics = TRUE,
                          !.MaxTrackedPaths = MaxTrackedPaths,
                          !.OnOperation = TRUE,
                          !.OnError = TRUE]

BareConfig ==
    [DefaultConfig EXCEPT !.EnableLatencyMetrics = FALSE,
                          !.EnableBandwidthMetrics = FALSE,
                          !.OnError = TRUE]

\* the wrapped filesystems and configurations: the optional methods it
\* implements, the Config given to NewWithConfig
SpecSetups == {<<{}, BareConfig>>, <<OptionalMethods, DefaultConfig>>,
               <<OptionalMethods, PathConfig>>}
SpecPaths == {"/a"}
SpecErrs == {NoError, Wrap("PathError", ErrNotExist)}
OpenErrs == SpecErrs \cup {ErrNotExist}
SpecFlags == {a + b + c : a \in {0, O_WRONLY}, b \in {0, O_RDWR},
                          c \in {0, O_APPEND}}
SpecSizes == 0..MaxBytes
\* (value, error) pairs a delegate returns: a value, or an error
Results(value) ==
    {<<value, NoError>>} \cup {<<"", e>> : e \in SpecErrs \ {NoError}}

\* NewWithConfig(fs, config)
NewWithConfig(caps, config) ==
    /\ collector = NewCollector(config)
    /\ hooks = NoHooks
    /\ fs = NewFS(caps)
    /\ files = <<>>
    /\ ret = NoReturn
    /\ pc = [t \in Threads |-> "idle"]
    /\ local = [t \in Threads |-> NoLocal]
    /\ hist = NoHistory

Init ==
    /\ \E setup \in SpecSetups : NewWithConfig(setup[1], setup[2])
    /\ budget = MaxOps

Next ==
    \/ \E name \in SpecPaths, d \in Durations, err \in OpenErrs :
           Open(name, d, err)
    \/ \E name \in SpecPaths, flag \in SpecFlags, d \in Durations,
          err \in OpenErrs : OpenFile(name, flag, d, err)
    \/ \E name \in SpecPaths, d \in Durations, err \in SpecErrs :
           Create(name, d, err)
    \/ \E name \in SpecPaths, d \in Durations, err \in SpecErrs :
           Mkdir(name, d, err)
    \/ \E name \in SpecPaths, d \in Durations, err \in SpecErrs :
           MkdirAll(name, d, err)
    \/ \E name \in SpecPaths, d \in Durations, err \in SpecErrs :
           Remove(name, d, err)
    \/ \E name \in SpecPaths, d \in Durations, err \in SpecErrs :
           RemoveAll(name, d, err)
    \/ \E name \in SpecPaths, d \in Durations, err \in SpecErrs :
           Rename(name, "/new", d, err)
    \/ \E name \in SpecPaths, d \in Durations, r \in Results("info") :
           Stat(name, d, r[1], r[2])
    \/ \E name \in SpecPaths, d \in Durations, r \in Results("info") :
           Lstat(name, d, r[1], r[2])
    \/ \E name \in SpecPaths, d \in Durations, err \in SpecErrs :
           Chmod(name, d, err)
    \/ \E name \in SpecPaths, d \in Durations, err \in SpecErrs :
           Chown(name, d, err)
    \/ \E name \in SpecPaths, d \in Durations, err \in SpecErrs :
           Chtimes(name, d, err)
    \/ \E name \in SpecPaths, d \in Durations, r \in Results("/target") :
           Readlink(name, d, r[1], r[2])
    \/ \E name \in SpecPaths, d \in Durations, err \in SpecErrs :
           Symlink("/old", name, d, err)
    \/ \E name \in SpecPaths, d \in Durations, err \in SpecErrs :
           Chdir(name, d, err)
    \/ \E d \in Durations, r \in Results("/a") : Getwd(d, r[1], r[2])
    \/ \E name \in SpecPaths, size \in SpecSizes, d \in Durations,
          err \in SpecErrs : Truncate(name, size, d, err)
    \/ \E h \in Handles, d \in Durations, n \in SpecSizes, err \in SpecErrs :
           FileRead(h, d, n, err)
    \/ \E h \in Handles, d \in Durations, n \in SpecSizes, err \in SpecErrs :
           FileReadAt(h, 0, d, n, err)
    \/ \E h \in Handles, d \in Durations, n \in SpecSizes, err \in SpecErrs :
           FileWrite(h, d, n, err)
    \/ \E h \in Handles, d \in Durations, n \in SpecSizes, err \in SpecErrs :
           FileWriteAt(h, 0, d, n, err)
    \/ \E h \in Handles, d \in Durations, n \in SpecSizes, err \in SpecErrs :
           FileWriteString(h, d, n, err)
    \/ \E h \in Handles, d \in Durations, pos \in SpecSizes, err \in SpecErrs :
           FileSeek(h, 0, d, pos, err)
    \/ \E h \in Handles, d \in Durations, r \in Results("info") :
           FileStat(h, d, r[1], r[2])
    \/ \E h \in Handles, d \in Durations, err \in SpecErrs :
           FileSync(h, d, err)
    \/ \E h \in Handles, size \in SpecSizes, d \in Durations, err \in SpecErrs :
           FileTruncate(h, size, d, err)
    \/ \E h \in Handles, d \in Durations, r \in Results("entries") :
           FileReaddir(h, 1, d, r[1], r[2])
    \/ \E h \in Handles, d \in Durations, r \in Results("names") :
           FileReaddirnames(h, 1, d, r[1], r[2])
    \/ \E h \in Handles, d \in Durations, err \in SpecErrs :
           FileClose(h, d, err)

Spec == Init /\ [][Next]_vars

----------------------------------------------------------------------------
(* SpecSeq: one caller, path metrics enabled, several paths                *)

SeqConfig ==
    [DefaultConfig EXCEPT !.EnablePathMetrics = TRUE,
                          !.MaxTrackedPaths = MaxTrackedPaths]

SeqPaths == {"/a", "/b", "/c"}
SeqErrs == {NoError, ErrNotExist}

InitSeq ==
    /\ NewWithConfig(OptionalMethods, SeqConfig)
    /\ budget = MaxSeqOps

NextSeq ==
    \/ \E name \in SeqPaths, d \in Durations, err \in SeqErrs :
           Stat(name, d, IF err = NoError THEN "info" ELSE "", err)
    \/ \E name \in SeqPaths, d \in Durations :
           Remove(name, d, NoError)
    \/ \E oldpath \in SeqPaths, d \in Durations :
           Rename(oldpath, "/new", d, ErrNotExist)
    \/ \E d \in Durations, dir \in {"", "/a"}, err \in SeqErrs :
           Getwd(d, dir, err)

SpecSeq == InitSeq /\ [][NextSeq]_vars

----------------------------------------------------------------------------
(* SpecPath: concurrent callers inside recordPathAccess                    *)
(* The two sections under pathMutex are atomic; the test between them and   *)
(* the counter increment after them are not under the lock.                *)

PathPaths == {"/a", "/b", "/c"}
PathOps == {"stat"}

\* where recordPathAccess goes after the read-locked section
rpaNext(c, tracked, count) ==
    IF rpaAdmit(c, tracked, count)
    THEN IF ~tracked THEN "rpa_lock" ELSE "rpa_inc"
    ELSE "idle"

\* RLock; tracked, count := ...; RUnlock; and the test on the two locals
RpaRead(t, path, op) ==
    /\ pc[t] = "idle"
    /\ budget > 0
    /\ budget' = budget - 1
    /\ LET r == rpaRead(collector, path) IN
       /\ local' = [local EXCEPT ![t] =
                      [NoLocal EXCEPT !.op = op, !.path = path,
                                      !.tracked = r.tracked,
                                      !.count = r.count]]
       /\ pc' = [pc EXCEPT ![t] = rpaNext(collector, r.tracked, r.count)]
    /\ UNCHANGED <<collector, hooks, fs, files, ret, hist>>

\* mutant: a caller that finds the path marked by another gives up
RpaLock_LostAdmission(t) ==
    /\ pc[t] = "rpa_lock"
    /\ collector' = rpaMark(collector, local[t].path)
    /\ pc' = [pc EXCEPT ![t] = IF local[t].path \in collector.trackedPaths
                               THEN "idle" ELSE "rpa_inc"]
    /\ UNCHANGED <<hooks, fs, files, ret, local, budget, hist>>

\* Lock; c.trackedPaths[path] = true; Unlock
RpaLock(t) ==
    /\ pc[t] = "rpa_lock"
    /\ collector' = rpaMark(collector, local[t].path)
    /\ pc' = [pc EXCEPT ![t] = "rpa_inc"]
    /\ UNCHANGED <<hooks, fs, files, ret, local, budget, hist>>

\* c.pathAccessTotal.WithLabelValues(path, op).Inc(); return
RpaInc(t) ==
    /\ pc[t] = "rpa_inc"
    /\ collector' = rpaInc(collector, local[t].path, local[t].op)
    /\ pc' = [pc EXCEPT ![t] = "idle"]
    /\ UNCHANGED <<hooks, fs, files, ret, local, budget, hist>>

InitPath ==
    /\ NewWithConfig({}, SeqConfig)
    /\ budget = MaxPathCalls

NextPath ==
    \/ \E t \in Threads, path \in PathPaths, op \in PathOps :
           RpaRead(t, path, op)
    \/ \E t \in Threads : RpaLock(t)
    \/ \E t \in Threads : RpaInc(t)

SpecPath == InitPath /\ [][NextPath]_vars

----------------------------------------------------------------------------
(* SpecFD: concurrent callers opening and closing files                    *)
(* Open / OpenFile / Create run up to newMetricsFile in one step; the      *)
(* atomic operations of trackFileOpen are one step each.  Close is one     *)
(* step: its only shared access besides counter increments is the atomic   *)
(* decrement.                                                              *)

FDPaths == {"/a"}
FDErrs == {NoError, ErrNotExist}
\* the handle-producing calls made: each method succeeding, Open failing
FDOpens == {<<"open", NoError>>, <<"open", ErrNotExist>>,
            <<"openfile", NoError>>, <<"create", NoError>>}

\* the bookkeeping of the three handle-producing methods before the
\* "if err != nil" test
preOf(kind, w, name, d, err) ==
    IF kind = "open" THEN openPre(w, name, d, err)
    ELSE IF kind = "openfile" THEN openFilePre(w, name, O_RDWR, d, err)
    ELSE createPre(w, name, d, err)

\* mutant: the loop is left after a failed compare-and-swap too
tfoAfterCas_NoRetry(swapped) == "done"

\* the loop of trackFileOpen after a compare-and-swap: leave, or read again
tfoAfterCas(swapped) == IF swapped THEN "done" ELSE "tfo_load"

\* newMetricsFile returns and the method hands the wrapper to its caller
Handed(t) ==
    /\ files' = Append(files, newMetricsFile(local[t].file, local[t].path))
    /\ ret' = [op |-> local[t].op, res |-> Len(files) + 1, err |-> NoError]
    /\ hist' = [hist EXCEPT !.closes = Append(@, 0)]
    /\ pc' = [pc EXCEPT ![t] = "idle"]
    /\ local' = [local EXCEPT ![t] = NoLocal]

\* Open / OpenFile / Create: the delegate call and the bookkeeping; on
\* error the call returns, otherwise it goes on into trackFileOpen
BeginOpen(t, kind, name, d, err) ==
    /\ pc[t] = "idle"
    /\ budget > 0
    /\ LET w == preOf(kind, World, name, d, err) IN
       /\ Delegate(IF kind = "open" THEN "Open"
                   ELSE IF kind = "openfile" THEN "OpenFile" ELSE "Create",
                   <<name>>, delegateFile(err), err)
       /\ Commit(w)
       /\ History(w, FALSE, 0)
       /\ IF err # NoError
          THEN /\ Return(kind, 0, err)
               /\ UNCHANGED <<pc, local>>
          ELSE /\ budget' = budget - 1
               /\ ret' = ret
               /\ pc' = [pc EXCEPT ![t] = "tfo_add"]
               /\ local' = [local EXCEPT ![t] =
                              [NoLocal EXCEPT !.op = kind, !.path = name,
                                              !.file = delegateFile(err)]]
    /\ files' = files

\* current := c.openFiles.Add(1)
TfoAdd(t) ==
    /\ pc[t] = "tfo_add"
    /\ collector' = tfoAdd(collector)
    /\ local' = [local EXCEPT ![t].current = collector'.openFiles]
    /\ pc' = [pc EXCEPT ![t] = "tfo_load"]
    /\ hist' = [hist EXCEPT !.peak = Max(@, collector'.openFiles)]
    /\ UNCHANGED <<hooks, fs, files, ret, budget>>

\* max := c.openFilesMax.Load(); if current <= max { break }
TfoLoad(t) ==
    /\ pc[t] = "tfo_load"
    /\ IF tfoDone(local[t].current, collector.openFilesMax)
       THEN Handed(t)
       ELSE /\ local' = [local EXCEPT ![t].max = collector.openFilesMax]
            /\ pc' = [pc EXCEPT ![t] = "tfo_cas"]
            /\ UNCHANGED <<files, ret, hist>>
    /\ UNCHANGED <<collector, hooks, fs, budget>>

\* if c.openFilesMax.CompareAndSwap(max, current) { break }
TfoCas(t) ==
    /\ pc[t] = "tfo_cas"
    /\ collector' = tfoCas(collector, local[t].max, local[t].current)
    /\ IF tfoAfterCas(tfoCasOk(collector, local[t].max)) = "done"
       THEN Handed(t)
       ELSE /\ pc' = [pc EXCEPT ![t] = "tfo_load"]
            /\ UNCHANGED <<files, ret, hist, local>>
    /\ UNCHANGED <<hooks, fs, budget>>

InitFD ==
    /\ NewWithConfig({}, DefaultConfig)
    /\ budget = MaxFDCalls

NextFD ==
    \/ \E t \in Threads, o \in FDOpens, name \in FDPaths, d \in Durations :
           BeginOpen(t, o[1], name, d, o[2])
    \/ \E t \in Threads : TfoAdd(t)
    \/ \E t \in Threads : TfoLoad(t)
    \/ \E t \in Threads : TfoCas(t)
    \/ \E h \in Handles, d \in Durations, err \in FDErrs :
           FileClose(h, d, err)

SpecFD == InitFD /\ [][NextFD]_vars

----------------------------------------------------------------------------
(* SpecCas: the open-files gauges under concurrent Open and Close calls,   *)
(* scheduled fairly                                                        *)
(* As SpecFD, with the failed compare-and-swaps of each caller and the     *)
(* raises of openFilesMax by the others counted in its locals.             *)

\* newMetricsFile returns and Open hands the wrapper to its caller; ls:
\* the locals of the callers
CasReturn(t, ls) ==
    /\ files' = Append(files, newMetricsFile(local[t].file, local[t].path))
    /\ ret' = [op |-> local[t].op, res |-> Len(files) + 1, err |-> NoError]
    /\ hist' = [hist EXCEPT !.closes = Append(@, 0)]
    /\ pc' = [pc EXCEPT ![t] = "idle"]
    /\ local' = [ls EXCEPT ![t] = NoLocal]

\* max := c.openFilesMax.Load(); if current <= max { break }
CasLoad(t) ==
    /\ pc[t] = "tfo_load"
    /\ IF tfoDone(local[t].current, collector.openFilesMax)
       THEN CasReturn(t, local)
       ELSE /\ local' = [local EXCEPT ![t].max = collector.openFilesMax]
            /\ pc' = [pc EXCEPT ![t] = "tfo_cas"]
            /\ UNCHANGED <<files, ret, hist>>
    /\ UNCHANGED <<collector, hooks, fs, budget>>

\* if c.openFilesMax.CompareAndSwap(max, current) { break }
CasCas(t) ==
    /\ pc[t] = "tfo_cas"
    /\ collector' = tfoCas(collector, local[t].max, local[t].current)
    /\ LET swapped == tfoCasOk(collector, local[t].max)
           ls == [u \in Threads |->
                    IF swapped /\ u # t /\ pc[u] # "idle"
                    THEN [local[u] EXCEPT !.raised = @ + 1] ELSE local[u]]
       IN  IF tfoAfterCas(swapped) = "done"
           THEN CasReturn(t, ls)
           ELSE /\ pc' = [pc EXCEPT ![t] = "tfo_load"]
                /\ local' = [ls EXCEPT ![t].retries = @ + 1]
                /\ UNCHANGED <<files, ret, hist>>
    /\ UNCHANGED <<hooks, fs, budget>>

InitCas ==
    /\ NewWithConfig({}, DefaultConfig)
    /\ budget = MaxCasCalls

NextCas ==
    \/ \E t \in Threads, d \in Durations :
           BeginOpen(t, "open", "/a", d, NoError)
    \/ \E t \in Threads : TfoAdd(t)
    \/ \E t \in Threads : CasLoad(t)
    \/ \E t \in Threads : CasCas(t)
    \/ \E h \in Handles, d \in Durations : FileClose(h, d, NoError)

SpecCas ==
    /\ InitCas /\ [][NextCas]_vars
    /\ \A t \in Threads : WF_vars(TfoAdd(t) \/ CasLoad(t) \/ CasCas(t))

----------------------------------------------------------------------------
(* SpecCollect: snapshots taken while files are opened, with opens that    *)
(* fail, and closed                                                        *)
(* Collect is not atomic: each Set(Load()) is a load and a store, and the  *)
(* two gauges are read again when they are sent, after the sends of the    *)
(* other metrics, which block until the channel is read.                   *)

\* Collect, line 339: the argument c.openFiles.Load() is evaluated
CollectLoadOpenFiles(t) ==
    /\ pc[t] = "idle"
    /\ budget > 0
    /\ budget' = budget - 1
    /\ local' = [local EXCEPT ![t].op = "collect",
                              ![t].current = collector.openFiles]
    /\ pc' = [pc EXCEPT ![t] = "collect_set"]
    /\ UNCHANGED <<collector, hooks, fs, files, ret, hist>>

\* Collect, line 339: c.openFilesGauge.Set of the value loaded
CollectSetOpenFiles(t) ==
    /\ pc[t] = "collect_set"
    /\ collector' = [collector EXCEPT !.openFilesGauge = local[t].current]
    /\ pc' = [pc EXCEPT ![t] = "collect_load_max"]
    /\ UNCHANGED <<hooks, fs, files, ret, local, budget, hist>>

\* Collect, line 340: the argument c.openFilesMax.Load() is evaluated
CollectLoadOpenFilesMax(t) ==
    /\ pc[t] = "collect_load_max"
    /\ local' = [local EXCEPT ![t].max = collector.openFilesMax]
    /\ pc' = [pc EXCEPT ![t] = "collect_set_max"]
    /\ UNCHANGED <<collector, hooks, fs, files, ret, budget, hist>>

\* Collect, line 340: c.openFilesMaxGauge.Set of the value loaded; the
\* sends of the other metrics on the channel follow
CollectSetOpenFilesMax(t) ==
    /\ pc[t] = "collect_set_max"
    /\ collector' = [collector EXCEPT !.openFilesMaxGauge = local[t].max]
    /\ pc' = [pc EXCEPT ![t] = "collect_send"]
    /\ UNCHANGED <<hooks, fs, files, ret, local, budget, hist>>

\* Collect, line 367: c.openFilesGauge.Collect(ch) sends the value the
\* gauge holds by now
CollectSendOpenFiles(t) ==
    /\ pc[t] = "collect_send"
    /\ local' = [local EXCEPT ![t].current = collector.openFilesGauge]
    /\ pc' = [pc EXCEPT ![t] = "collect_send_max"]
    /\ UNCHANGED <<collector, hooks, fs, files, ret, budget, hist>>

\* Collect, line 368: c.openFilesMaxGauge.Collect(ch) sends the value the
\* gauge holds by now, and Collect returns: the snapshot is the two values
\* sent
CollectSendOpenFilesMax(t) ==
    /\ pc[t] = "collect_send_max"
    /\ ret' = [op |-> "collect",
               res |-> [openFiles |-> local[t].current,
                        openFilesMax |-> collector.openFilesMaxGauge],
               err |-> NoError]
    /\ pc' = [pc EXCEPT ![t] = "idle"]
    /\ local' = [local EXCEPT ![t] = NoLocal]
    /\ UNCHANGED <<collector, hooks, fs, files, budget, hist>>

InitCollect ==
    /\ NewWithConfig({}, DefaultConfig)
    /\ budget = MaxCollectCalls

NextCollect ==
    \/ \E t \in Threads, d \in Durations, err \in FDErrs :
           BeginOpen(t, "open", "/a", d, err)
    \/ \E t \in Threads : TfoAdd(t)
    \/ \E t \in Threads : TfoLoad(t)
    \/ \E t \in Threads : TfoCas(t)
    \/ \E h \in Handles, d \in Durations : FileClose(h, d, NoError)
    \/ \E t \in Threads : CollectLoadOpenFiles(t)
    \/ \E t \in Threads : CollectSetOpenFiles(t)
    \/ \E t \in Threads : CollectLoadOpenFilesMax(t)
    \/ \E t \in Threads : CollectSetOpenFilesMax(t)
    \/ \E t \in Threads : CollectSendOpenFiles(t)
    \/ \E t \in Threads : CollectSendOpenFilesMax(t)

SpecCollect == InitCollect /\ [][NextCollect]_vars

----------------------------------------------------------------------------
(* SpecErr: the two error classifiers on wrapped and nested errors         *)
(* The pull model classifies inside recordError, reached here through      *)
(* Stat; the push model classifies in categorizeError.                     *)

\* the errors wrapped: the sentinels, errno values (ETIMEDOUT matches no
\* sentinel) and a joined error matching two sentinels
ErrRoots == {ErrNotExist, ErrPermission, ErrDeadlineExceeded,
             ENOENT, ETIMEDOUT, Join(ErrPermission, ErrNotExist)}

\* *os.PathError, and the wrapper made by fmt.Errorf("%w")
Wrappers == {"PathError", "wrapError"}

\* the errors of ErrRoots inside at most n wrappers
RECURSIVE Wrapped(_)
Wrapped(n) ==
    IF n = 0 THEN ErrRoots
    ELSE Wrapped(n - 1) \cup
         {Wrap(k, e) : k \in Wrappers, e \in Wrapped(n - 1)}

ErrErrs == {NoError} \cup Wrapped(MaxWrap)

\* categorizeError(err), as buildAttributes calls it
CategorizeError(err) ==
    /\ budget > 0
    /\ Return("categorizeError", categorizeError(err), err)
    /\ UNCHANGED <<collector, hooks, fs, files, pc, local, hist>>

InitErr ==
    /\ NewWithConfig({}, DefaultConfig)
    /\ budget = MaxErrCalls

NextErr ==
    \/ \E name \in SpecPaths, d \in Durations, err \in ErrErrs :
           Stat(name, d, IF err = NoError THEN "info" ELSE "", err)
    \/ \E err \in ErrErrs : CategorizeError(err)

SpecErr == InitErr /\ [][NextErr]_vars

----------------------------------------------------------------------------
(* SpecHook: one caller, user callbacks that return or panic               *)
(* A call runs up to the start of a callback in one step.  The callback    *)
(* then returns, and the call goes on to the next callback or to its end,  *)
(* or it panics: nothing recovers inside this package, so the rest of      *)
(* recordOperation and of the calling method is not executed.              *)

HookKinds == {"stat", "mkdir", "open", "write", "close"}

\* the delegate method behind each kind of call
hookMethod(kind) ==
    CASE kind = "stat" -> "Stat"
      [] kind = "mkdir" -> "Mkdir"
      [] kind = "open" -> "Open"
      [] kind = "write" -> "File.Write"
      [] kind = "close" -> "File.Close"

\* what Stat / Mkdir / Open / Write / Close do after recordOperation
\* returned
afterRecord(kind, c, err) ==
    IF kind = "open"
    THEN LET c1 == recordFileOpen(c, "read")
         IN  IF err = NoError THEN trackFileOpen(c1) ELSE c1
    ELSE IF kind = "mkdir" THEN recordDirOperation(c, "mkdir")
    ELSE IF kind = "close" THEN trackFileClose(c)
    ELSE c

\* the configurations: both callbacks and path metrics, one callback only
HookConfigs == {PathConfig, [DefaultConfig EXCEPT !.OnOperation = TRUE],
                [DefaultConfig EXCEPT !.OnError = TRUE]}

\* the call l of caller t goes on after recordOperation returned, the
\* collector being c and the history hs, and returns to the caller
FinishCall(t, l, c, hs) ==
    LET c1 == afterRecord(l.kind, c, l.err)
        opened == l.kind = "open" /\ l.err = NoError
    IN  /\ collector' = c1
        /\ files' = IF opened
                     THEN Append(files, newMetricsFile(l.file, l.path))
                     ELSE files
        /\ Return(l.kind, IF opened THEN Len(files) + 1 ELSE l.res, l.err)
        /\ hist' = [hs EXCEPT
                      !.peak = Max(@, c1.openFiles),
                      !.closes = IF opened THEN Append(@, 0)
                                 ELSE IF l.kind = "close"
                                   THEN [@ EXCEPT ![l.h] = @ + 1]
                                 ELSE @]
        /\ pc' = [pc EXCEPT ![t] = "idle"]
        /\ local' = [local EXCEPT ![t] = NoLocal]

\* recordOperation of the call l after its "if err != nil" block, the
\* collector being c: the counters, then the OnOperation callback is
\* started; without one recordOperation returns
AfterRecordError(t, l, c, hs) ==
    LET c1 == countOperation(c, l.op, l.path, l.bytes, l.err) IN
    IF c1.config.OnOperation
    THEN /\ Commit(callOnOperation([c |-> c1, hooks |-> hooks, m |-> hs],
                                    l.op, l.path, l.d, l.bytes, l.err))
         /\ pc' = [pc EXCEPT ![t] = "on_operation"]
         /\ local' = [local EXCEPT ![t] = l]
         /\ hist' = hs
         /\ UNCHANGED <<files, ret, budget>>
    ELSE /\ hooks' = hooks
         /\ FinishCall(t, l, c1, hs)

\* a call of Stat / Mkdir / Open, or of Write / Close on the handle h: the
\* delegate returns (res, err) and recordOperation runs up to the start of
\* the first callback
BeginCall(t, kind, name, h, n, d, err) ==
    /\ pc[t] = "idle"
    /\ budget > 0
    /\ IF kind \in {"write", "close"} THEN h \in Handles ELSE h = 0
    /\ LET path == IF h # 0 THEN files[h].path ELSE name
           bytes == IF kind = "write" THEN n ELSE 0
           res == IF kind = "write" THEN n
                  ELSE IF kind = "open" THEN delegateFile(err)
                  ELSE IF kind = "stat" /\ err = NoError THEN "info"
                  ELSE IF kind = "stat" THEN ""
                  ELSE "void"
           l == [kind |-> kind, op |-> kind, path |-> path, bytes |-> bytes,
                 d |-> d, err |-> err, h |-> h, res |-> res,
                 file |-> IF kind = "open" THEN delegateFile(err) ELSE 0,
                 before |-> World]
           m == [n |-> hist.n + 1,
                 last |-> [op |-> kind, path |-> path, bytes |-> bytes,
                           err |-> err]]
           hs == [hist EXCEPT !.n = m.n, !.last = m.last,
                              !.seen = seenAfter(@, m)]
       IN  /\ Delegate(hookMethod(kind),
                       IF h # 0 THEN <<files[h].file>> ELSE <<name>>, res, err)
           /\ IF err # NoError /\ collector.config.OnError
              THEN /\ Commit(recordError(World, kind, err))
                   /\ pc' = [pc EXCEPT ![t] = "on_error"]
                   /\ local' = [local EXCEPT ![t] = l]
                   /\ hist' = hs
                   /\ UNCHANGED <<files, ret, budget>>
              ELSE AfterRecordError(t, l, recordError(World, kind, err).c, hs)

\* the OnError callback returns: recordError returns and recordOperation
\* goes on
OnErrorReturns(t) ==
    /\ pc[t] = "on_error"
    /\ fs' = fs
    /\ AfterRecordError(t, local[t], collector, hist)

\* the OnOperation callback returns: recordOperation returns and the
\* method goes on to its end
OnOperationReturns(t) ==
    /\ pc[t] = "on_operation"
    /\ fs' = fs
    /\ hooks' = hooks
    /\ FinishCall(t, local[t], collector, hist)

\* the callback running panics: the panic leaves recordOperation and the
\* method and reaches the caller
HookPanics(t) ==
    /\ pc[t] \in {"on_error", "on_operation"}
    /\ pc' = [pc EXCEPT ![t] = "panicked"]
    /\ UNCHANGED <<collector, hooks, fs, files, ret, local, budget, hist>>

\* the caller recovers from the panic and carries on
Recover(t) ==
    /\ pc[t] = "panicked"
    /\ Return(local[t].kind, "panic", NoError)
    /\ pc' = [pc EXCEPT ![t] = "idle"]
    /\ local' = [local EXCEPT ![t] = NoLocal]
    /\ UNCHANGED <<collector, hooks, fs, files, hist>>

InitHook ==
    /\ \E config \in HookConfigs : NewWithConfig({}, config)
    /\ budget = MaxHookCalls

NextHook ==
    \/ \E kind \in HookKinds, name \in SpecPaths, h \in {0} \cup Handles,
          n \in SpecSizes, d \in Durations, err \in SpecErrs :
           BeginCall(1, kind, name, h, n, d, err)
    \/ OnErrorReturns(1)
    \/ OnOperationReturns(1)
    \/ HookPanics(1)
    \/ Recover(1)

SpecHook == InitHook /\ [][NextHook]_vars

----------------------------------------------------------------------------
(* SpecScen: one caller creating, writing, reading, closing, truncating    *)
(* Sequences of up to MaxScenOps calls on a freshly wrapped filesystem,    *)
(* with bandwidth metrics enabled and disabled.                            *)

ScenPaths == {"/a.txt"}
\* byte counts: none, a small one, and the 11 bytes of "hello world"
ScenSizes == {0, MaxBytes, 11}
ScenConfigs == {DefaultConfig,
                [DefaultConfig EXCEPT !.EnableBandwidthMetrics = FALSE]}

InitScen ==
    /\ \E config \in ScenConfigs : NewWithConfig(OptionalMethods, config)
    /\ budget = MaxScenOps

NextScen ==
    \/ \E name \in ScenPaths, d \in Durations : Create(name, d, NoError)
    \/ \E h \in Handles, d \in Durations, n \in ScenSizes, err \in SpecErrs :
           FileWrite(h, d, n, err)
    \/ \E h \in Handles, d \in Durations, n \in ScenSizes :
           FileRead(h, d, n, NoError)
    \/ \E h \in Handles, d \in Durations : FileClose(h, d, NoError)
    \/ \E name \in ScenPaths, d \in Durations : Stat(name, d, "info", NoError)
    \/ \E name \in ScenPaths, size \in ScenSizes, d \in Durations :
           Truncate(name, size, d, NoError)

SpecScen == InitScen /\ [][NextScen]_vars

----------------------------------------------------------------------------
(* SpecCfg: collectors built from configurations with fields left unset    *)
(* A field left unset in a Config literal holds its zero value: false for  *)
(* the enable flags, 0 for MaxTrackedPaths, nil for the callbacks.         *)

\* Config{}
ZeroConfig ==
    [EnableLatencyMetrics   |-> FALSE,
     EnableBandwidthMetrics |-> FALSE,
     EnablePathMetrics      |-> FALSE,
     MaxTrackedPaths        |-> 0,
     OnOperation            |-> FALSE,
     OnError                |-> FALSE]

\* DefaultConfig(), Config{}, Config{EnablePathMetrics: true}
CfgConfigs == {DefaultConfig, ZeroConfig,
               [ZeroConfig EXCEPT !.EnablePathMetrics = TRUE]}

InitCfg ==
    /\ \E config \in CfgConfigs : NewWithConfig({}, config)
    /\ budget = MaxCfgOps

NextCfg ==
    \/ \E name \in SpecPaths, d \in Durations, err \in SpecErrs :
           Create(name, d, err)
    \/ \E h \in Handles, d \in Durations, n \in SpecSizes, err \in SpecErrs :
           FileWrite(h, d, n, err)
    \/ \E h \in Handles, d \in Durations, n \in SpecSizes, err \in SpecErrs :
           FileRead(h, d, n, err)
    \/ \E name \in SpecPaths, d \in Durations, r \in Results("info") :
           Stat(name, d, r[1], r[2])

SpecCfg == InitCfg /\ [][NextCfg]_vars

----------------------------------------------------------------------------
(* SpecOTel: the push model, one caller                                    *)
(* collector holds the OTelCollector and hooks the spans: span 1 is the    *)
(* span carried by the context the caller passes to the ...WithContext     *)
(* methods, the others are those tracer.Start returned.  A call is three   *)
(* steps: startSpan, the body up to its return statement, and the deferred *)
(* span.End().                                                             *)

ErrClosed == <<{"ErrClosed"}>>

\* NewOTelCollector: the instruments, each a counter by attribute set
NewOTelCollector(config) ==
    [config              |-> config,
     operationsCounter   |-> <<>>,
     operationDuration   |-> <<>>,
     bytesReadCounter    |-> <<>>,
     bytesWrittenCounter |-> <<>>,
     errorsCounter       |-> <<>>,
     openFilesGauge      |-> 0]

\* OTelCollector.buildAttributes, without the constant attributes
buildAttributes(op, path, err) ==
    <<op, path, IF err # NoError THEN categorizeError(err) ELSE "success">>

\* Add(ctx, n, attrs) on a counter instrument
AddTo(vec, key, n) ==
    IF key \in DOMAIN vec THEN [vec EXCEPT ![key] = @ + n]
    ELSE vec @@ (key :> n)

\* OTelCollector.recordOperation
otelRecordOperation(c, op, path, bytesTransferred, err) ==
    LET attrs == buildAttributes(op, path, err)
        c1 == [c EXCEPT !.operationsCounter = Inc(@, attrs),
                        !.operationDuration = Inc(@, attrs)]
        c2 == IF bytesTransferred > 0 /\ op = "read"
                THEN [c1 EXCEPT !.bytesReadCounter =
                                    AddTo(@, attrs, bytesTransferred)]
              ELSE IF bytesTransferred > 0 /\ op = "write"
                THEN [c1 EXCEPT !.bytesWrittenCounter =
                                    AddTo(@, attrs, bytesTransferred)]
              ELSE c1
    IN  IF err # NoError THEN [c2 EXCEPT !.errorsCounter = Inc(@, attrs)]
        ELSE c2

\* a span that has not ended
NewSpan(name, path) ==
    [name |-> name, path |-> path, ended |-> 0, status |-> "unset",
     errors |-> <<>>, attrs |-> {}]

\* context.Background(): a context carrying no span, whose
\* trace.SpanFromContext is a span that records nothing
Background == 0

\* the context the caller passes to the ...WithContext methods: it
\* carries span 1
CallerCtx == 1

\* the calls made: the span name, the operation name, whether it is a
\* method of a handle
OTelCalls ==
    {[span |-> "Open", op |-> "open", file |-> FALSE],
     [span |-> "OpenFile", op |-> "openfile", file |-> FALSE],
     [span |-> "Stat", op |-> "stat", file |-> FALSE],
     [span |-> "Create", op |-> "create", file |-> FALSE],
     [span |-> "Mkdir", op |-> "mkdir", file |-> FALSE],
     [span |-> "MkdirAll", op |-> "mkdirall", file |-> FALSE],
     [span |-> "Remove", op |-> "remove", file |-> FALSE],
     [span |-> "RemoveAll", op |-> "removeall", file |-> FALSE],
     [span |-> "Rename", op |-> "rename", file |-> FALSE],
     [span |-> "Chmod", op |-> "chmod", file |-> FALSE],
     [span |-> "Chown", op |-> "chown", file |-> FALSE],
     [span |-> "Chtimes", op |-> "chtimes", file |-> FALSE],
     [span |-> "Lstat", op |-> "lstat", file |-> FALSE],
     [span |-> "Readlink", op |-> "readlink", file |-> FALSE],
     [span |-> "Symlink", op |-> "symlink", file |-> FALSE],
     [span |-> "Read", op |-> "read", file |-> TRUE],
     [span |-> "Write", op |-> "write", file |-> TRUE],
     [span |-> "Close", op |-> "close", file |-> TRUE]}

\* the operations that return newOTelMetricsFile(f, ...) on success
OTelOpens == {"open", "openfile", "create"}

\* the methods the code looks for on the filesystem with a type assertion
OTelOptional == {"Lstat", "Readlink", "Symlink"}

\* startSpan: with tracing, the spans and the index of the span
\* tracer.Start returns, which the returned context carries; without, the
\* context ctx and its span
startSpan(c, spans, ctx, name, path) ==
    IF ~c.config.EnableTracing
    THEN [spans |-> spans, span |-> ctx]
    ELSE [spans |-> Append(spans, NewSpan(name, path)), span |-> Len(spans) + 1]

\* span.SetAttributes before the defer statement, in Rename, Chmod, Chown
\* and Symlink
attrsAtStart(call, span) ==
    IF call.op = "rename"
      THEN [span EXCEPT !.attrs = @ \cup {<<"fs.newpath", "/new">>}]
    ELSE IF call.op = "chmod"
      THEN [span EXCEPT !.attrs = @ \cup {<<"fs.mode", "-rw-r--r--">>}]
    ELSE IF call.op = "chown"
      THEN [span EXCEPT !.attrs = @ \cup {<<"fs.uid", "1000">>,
                                          <<"fs.gid", "1000">>}]
    ELSE IF call.op = "symlink"
      THEN [span EXCEPT !.attrs = @ \cup {<<"fs.target", "/target">>}]
    ELSE span

\* what the body does to its span after recordOperation
markSpan(call, span, res, err) ==
    IF err = NoError
    THEN IF call.op = "readlink"
         THEN [span EXCEPT !.attrs = @ \cup {<<"fs.target", res>>}]
         ELSE span
    ELSE IF ~call.file
      THEN [span EXCEPT !.status = "error", !.errors = Append(@, err)]
    ELSE IF call.op = "read" /\ err = ErrClosed THEN span
    ELSE [span EXCEPT !.errors = Append(@, err)]

\* mutant: the span is ended on the successful exit only
spanEnd_SuccessOnly(span, err) ==
    IF err = NoError THEN [span EXCEPT !.ended = @ + 1] ELSE span

\* the deferred span.End() of a call that returns err
spanEnd(span, err) == [span EXCEPT !.ended = @ + 1]

\* the errors a method of a file returns, os.ErrClosed among them
OTelErrs == SpecErrs \cup {ErrClosed}

\* the arguments the delegate is called with; those besides the path are
\* passed on as given and are the same in every call
otelArgs(call, path, h) ==
    IF call.file THEN <<files[h].file>>
    ELSE IF call.op = "openfile" THEN <<path, "O_RDONLY", "-rw-r--r--">>
    ELSE IF call.op \in {"mkdir", "mkdirall"} THEN <<path, "-rwxr-xr-x">>
    ELSE IF call.op = "rename" THEN <<path, "/new">>
    ELSE IF call.op = "chmod" THEN <<path, "-rw-r--r--">>
    ELSE IF call.op = "chown" THEN <<path, "1000", "1000">>
    ELSE IF call.op = "chtimes" THEN <<path, "atime", "mtime">>
    ELSE IF call.op = "symlink" THEN <<"/target", path>>
    ELSE <<path>>

\* what a successful delegate returns, besides a file
otelValue(op, n) ==
    IF op \in {"read", "write"} THEN n
    ELSE IF op \in {"stat", "lstat"} THEN "info"
    ELSE IF op = "readlink" THEN "/target"
    ELSE "void"

\* "ctx, span := startSpan(...)", and what precedes "defer span.End()";
\* ctx is the context of a ...WithContext call, context.Background() in
\* the methods without context and f.ctx in the methods of a handle
OTelStart(t, call, name, h, ctx) ==
    /\ pc[t] = "idle"
    /\ budget > 0
    /\ IF call.file THEN h \in Handles /\ ctx = files[h].ctx
       ELSE h = 0 /\ ctx \in {Background, CallerCtx}
    /\ LET path == IF call.file THEN files[h].path ELSE name
           s == startSpan(collector, hooks.spans, ctx, call.span, path)
       IN  /\ hooks' = [hooks EXCEPT !.spans =
                          IF s.span = Background THEN s.spans
                          ELSE [s.spans EXCEPT ![s.span] =
                                                 attrsAtStart(call, @)]]
           /\ local' = [local EXCEPT ![t] =
                          [call |-> call, path |-> path, h |-> h,
                           span |-> s.span, res |-> 0, err |-> NoError]]
    /\ pc' = [pc EXCEPT ![t] = "otel_body"]
    /\ UNCHANGED <<collector, fs, files, ret, budget, hist>>

\* the body: the delegate returns (res, err), or the filesystem has no
\* Readlink or no Symlink, or Stat stands in for a missing Lstat;
\* recordOperation; the handle is wrapped; the span is marked; the return
\* statement is reached
OTelBody(t, n, failure) ==
    /\ pc[t] = "otel_body"
    /\ failure \in (IF local[t].call.file THEN OTelErrs ELSE SpecErrs)
    /\ LET l == local[t]
           op == l.call.op
           lacks == l.call.span \in OTelOptional \ fs.caps
           invalid == lacks /\ op \in {"readlink", "symlink"}
           err == IF invalid THEN ErrInvalid ELSE failure
           bytes == IF op \in {"read", "write"} THEN n ELSE 0
           res == IF op \in OTelOpens THEN delegateFile(err)
                  ELSE IF op \in {"read", "write"} THEN n
                  ELSE IF err # NoError THEN ""
                  ELSE otelValue(op, n)
           c1 == otelRecordOperation(collector, op, l.path, bytes, err)
           opened == op \in OTelOpens /\ err = NoError
       IN  /\ IF invalid THEN fs' = fs
              ELSE Delegate(IF l.call.file THEN "File." \o l.call.span
                            ELSE IF lacks THEN "Stat"
                            ELSE l.call.span,
                            otelArgs(l.call, l.path, l.h), res, err)
           /\ collector' =
                IF opened THEN [c1 EXCEPT !.openFilesGauge = @ + 1]
                ELSE IF op = "close" THEN [c1 EXCEPT !.openFilesGauge = @ - 1]
                ELSE c1
           /\ hooks' = IF l.span = Background THEN hooks
                       ELSE [hooks EXCEPT !.spans[l.span] =
                               markSpan(l.call, @, res, err)]
           /\ files' = IF opened
                        THEN Append(files, [file |-> res, path |-> l.path,
                                            ctx |-> l.span])
                        ELSE files
           /\ local' = [local EXCEPT ![t] =
                          [l EXCEPT !.err = err,
                                    !.res = IF opened THEN Len(files) + 1
                                            ELSE IF op \in OTelOpens THEN 0
                                            ELSE res]]
           /\ hist' = [hist EXCEPT
                         !.n = @ + 1,
                         !.last = [op |-> op, path |-> l.path,
                                   bytes |-> bytes, err |-> err],
                         !.closes = IF opened THEN Append(@, 0)
                                    ELSE IF op = "close"
                                      THEN [@ EXCEPT ![l.h] = @ + 1]
                                    ELSE @]
    /\ pc' = [pc EXCEPT ![t] = "otel_defer"]
    /\ UNCHANGED <<ret, budget>>

\* the deferred span.End() runs and the call returns
OTelEnd(t) ==
    /\ pc[t] = "otel_defer"
    /\ hooks' = IF local[t].span = Background THEN hooks
                ELSE [hooks EXCEPT !.spans[local[t].span] =
                        spanEnd(@, local[t].err)]
    /\ Return(local[t].call.op, local[t].res, local[t].err)
    /\ pc' = [pc EXCEPT ![t] = "idle"]
    /\ local' = [local EXCEPT ![t] = NoLocal]
    /\ UNCHANGED <<collector, fs, files, hist>>

\* NewWithOTel(fs, config), and the context of the caller with its span
InitOTel ==
    /\ \E tracing \in BOOLEAN, caps \in {{}, OTelOptional} :
         /\ collector = NewOTelCollector([EnableTracing |-> tracing])
         /\ fs = NewFS(caps)
    /\ hooks = [spans |-> <<NewSpan("caller", "")>>]
    /\ files = <<>>
    /\ ret = NoReturn
    /\ pc = [t \in Threads |-> "idle"]
    /\ local = [t \in Threads |-> NoLocal]
    /\ hist = NoHistory
    /\ budget = MaxOTelCalls

NextOTel ==
    \/ \E call \in OTelCalls, name \in SpecPaths, h \in {0} \cup Handles,
          ctx \in 0..Len(hooks.spans) :
           OTelStart(1, call, name, h, ctx)
    \/ \E n \in SpecSizes, err \in OTelErrs : OTelBody(1, n, err)
    \/ OTelEnd(1)

SpecOTel == InitOTel /\ [][NextOTel]_vars

----------------------------------------------------------------------------
(* SpecOTelFile: the push model with every method of the decorated handle   *)
(* Besides Read, Write and Close, otelMetricsFile passes its other methods *)
(* straight to the wrapped file.                                           *)

\* the methods of otelMetricsFile that only delegate, with what the
\* delegate returns on success and on failure
OTelPlainMethods ==
    {<<"ReadAt", MaxBytes, 0>>, <<"WriteAt", MaxBytes, 0>>,
     <<"WriteString", MaxBytes, 0>>, <<"Seek", 0, 0>>,
     <<"Stat", "info", "">>, <<"Sync", "void", "void">>,
     <<"Truncate", "void", "void">>, <<"Readdir", "entries", "">>,
     <<"Readdirnames", "entries", "">>}

\* "return f.file.M(...)": one call of the delegate, nothing else
OTelFilePlain(t, h, m, err) ==
    /\ pc[t] = "idle"
    /\ budget > 0
    /\ h \in Handles
    /\ LET res == IF err = NoError THEN m[2] ELSE m[3]
       IN  /\ Delegate("File." \o m[1], <<files[h].file>>, res, err)
           /\ Return(m[1], res, err)
    /\ UNCHANGED <<collector, hooks, files, pc, local, hist>>

NextOTelFile ==
    \/ NextOTel
    \/ \E h \in Handles, m \in OTelPlainMethods, err \in SpecErrs :
           OTelFilePlain(1, h, m, err)

SpecOTelFile == InitOTel /\ [][NextOTelFile]_vars

----------------------------------------------------------------------------
(* Claims                                                                  *)

Min(a, b) == IF a <= b THEN a ELSE b

\* the sum of the counts of a counter vector
RECURSIVE SumVec(_)
SumVec(vec) ==
    IF DOMAIN vec = {} THEN 0
    ELSE LET k == CHOOSE k \in DOMAIN vec : TRUE
         IN  vec[k] + SumVec([x \in DOMAIN vec \ {k} |-> vec[x]])

\* the first min(C, k) of the k distinct non-empty paths seen so far
FirstPaths ==
    Range(SubSeq(hist.seen, 1,
                 Min(collector.config.MaxTrackedPaths, Len(hist.seen))))

StatusOf(err) == IF err # NoError THEN "error" ELSE "success"

\* a step in which recordOperation was given one Measurement
Measured == hist'.n = hist.n + 1

\* C3: with one caller and path metrics enabled, the tracked set is the
\* first min(C, k) distinct non-empty paths seen, and an operation on a
\* path outside them changes no per-path counter but increments
\* operationsTotal for its name and status.
C3_FirstPathsTracked ==
    /\ [](collector.trackedPaths = FirstPaths)
    /\ [][(Measured /\ hist'.last.path # ""
             /\ hist'.last.path \notin collector.trackedPaths
             /\ Cardinality(collector.trackedPaths)
                  >= collector.config.MaxTrackedPaths)
          => /\ collector'.pathAccessTotal = collector.pathAccessTotal
             /\ collector'.operationsTotal =
                  Inc(collector.operationsTotal,
                      <<hist'.last.op, StatusOf(hist'.last.err)>>)]_vars

\* a path beyond the limit was used after the limit was reached,
\* and a tracked path was used again afterwards
C3_Witness ==
    /\ Len(hist.seen) > collector.config.MaxTrackedPaths
    /\ Cardinality(collector.trackedPaths) = collector.config.MaxTrackedPaths
    /\ hist.last.path \in collector.trackedPaths
    /\ SumVec(collector.pathAccessTotal) >= 2
    /\ SumVec(collector.operationsTotal) > SumVec(collector.pathAccessTotal)


\* C1: the number of tracked paths never exceeds the configured limit,
\* whatever the interleaving of concurrent recordPathAccess calls.
C1_TrackedWithinLimit ==
    Cardinality(collector.trackedPaths) <= collector.config.MaxTrackedPaths

\* the per-path counter of (path, op)
PathCount(c, path, op) == Val(c.pathAccessTotal, <<path, op>>)

\* C2: a tracked path stays tracked; a recordPathAccess call that starts
\* when its path is tracked goes on to the increment, whatever the size of
\* the tracked set, and the call returns from there having incremented the
\* counter of its path and operation.
C2_AdmittedStaysCounted ==
    [][/\ collector.trackedPaths \subseteq collector'.trackedPaths
       /\ \A t \in Threads :
            /\ (pc[t] = "idle" /\ local'[t] # local[t]
                  /\ local'[t].path \in collector.trackedPaths)
               => pc'[t] = "rpa_inc"
            /\ (pc[t] = "rpa_inc" /\ pc'[t] # "rpa_inc")
               => PathCount(collector', local[t].path, local[t].op)
                    = PathCount(collector, local[t].path, local[t].op) + 1
      ]_vars

\* the tracked set is full, and a call that found its path tracked has
\* incremented a counter that an earlier call had incremented
C2_Witness ==
    /\ Cardinality(collector.trackedPaths) >= collector.config.MaxTrackedPaths
    /\ \E t \in Threads :
         /\ pc[t] = "idle" /\ local[t].tracked
         /\ PathCount(collector, local[t].path, local[t].op) >= 2


\* no call is in progress
Quiescent == Idle

\* C4: with no call in progress, openFiles is the number of handles
\* returned by Open / OpenFile / Create minus the number of Close calls
\* made on them; every Close call decrements openFiles by one, also when
\* the delegate's Close fails and when the handle was closed before.
C4_CurrentIsOpensMinusCloses ==
    /\ [](Quiescent =>
            collector.openFiles = Len(files) - SumVec(hist.closes))
    /\ [][\A h \in Handles :
            hist'.closes[h] = hist.closes[h] + 1
            => collector'.openFiles = collector.openFiles - 1]_vars

\* a handle was closed twice, the last Close failed in the delegate, and
\* more Close calls were made than handles returned
C4_Witness ==
    /\ Quiescent
    /\ \E h \in Handles : hist.closes[h] >= 2
    /\ ret.op = "close" /\ ret.err # NoError
    /\ collector.openFiles < 0

\* C5: with no call in progress, openFilesMax is the largest value
\* openFiles has held.
C5_MaxIsPeak == Quiescent => collector.openFilesMax = hist.peak

\* two handles were open at once and one has been closed since
C5_Witness ==
    /\ Quiescent
    /\ hist.peak >= 2
    /\ collector.openFiles < hist.peak
    /\ Len(files) >= 2

\* C6: with no call in progress, openFilesMax >= openFiles.
C6_MaxAtLeastCurrent ==
    Quiescent => collector.openFilesMax >= collector.openFiles

\* handles are open, and fewer than there were at the peak
C6_Witness ==
    /\ Quiescent
    /\ collector.openFiles >= 1
    /\ collector.openFilesMax > collector.openFiles


\* a step that is one completed call of a MetricsFS / MetricsFile method
Called == budget' = budget - 1

\* the delegate was called once in this step
DelegatedOnce == fs'.ncalls = fs.ncalls + 1

OpenMethods == {"Open", "OpenFile", "Create"}

\* the optional operations that fail when the wrapped filesystem lacks them
MethodOf ==
    [readlink |-> "Readlink", symlink |-> "Symlink", chdir |-> "Chdir",
     getwd |-> "Getwd", truncate |-> "Truncate"]

\* the call of this step is an optional operation the filesystem lacks
UnsupportedCall ==
    /\ Called
    /\ ret'.op \in DOMAIN MethodOf
    /\ fs' = fs
    /\ MethodOf[ret'.op] \notin fs.caps

\* the caller got what the delegate returned in this step: the same error
\* value and the same result, a file being handed over inside a new wrapper
ReturnedDelegateResult ==
    /\ ret'.err = fs'.last.err
    /\ IF fs'.last.method \in OpenMethods
       THEN IF fs'.last.err # NoError
            THEN ret'.res = 0 /\ files' = files
            ELSE /\ ret'.res = Len(files) + 1
                 /\ files' = Append(files, [file |-> fs'.last.res,
                                            path |-> fs'.last.args[1]])
       ELSE ret'.res = fs'.last.res

\* C7 as stated: every intercepted call invokes the delegate exactly once
\* and returns the delegate's result and error.
C7_Original ==
    [][Called => (DelegatedOnce /\ ReturnedDelegateResult)]_vars

\* C7 as amended: a call of an operation the wrapped filesystem implements
\* invokes the delegate exactly once and returns the delegate's result and
\* error value; an optional operation the filesystem does not implement
\* invokes no delegate and returns ErrInvalid.
C7_DelegateResultReturned ==
    [][Called =>
         IF UnsupportedCall
         THEN ret'.err = ErrInvalid
         ELSE DelegatedOnce /\ ReturnedDelegateResult]_vars

\* a read on a handle returned a byte count together with a wrapped error,
\* with both hooks configured
C7_Witness ==
    /\ ret.op = "read"
    /\ ret.res = 1
    /\ ret.err = Wrap("PathError", ErrNotExist)
    /\ fs.last.err = ret.err
    /\ fs.ncalls = 2
    /\ collector.config.OnOperation /\ collector.config.OnError

\* C8: an optional operation the wrapped filesystem does not implement
\* returns ErrInvalid and gives recordOperation exactly one Measurement of
\* that operation with that error: operationsTotal{op,error} and
\* errorsTotal{op,unknown} increase by one.
C8_UnsupportedIsMeasured ==
    [][UnsupportedCall =>
         /\ ret'.err = ErrInvalid
         /\ hist'.n = hist.n + 1
         /\ hist'.last.op = ret'.op
         /\ hist'.last.err = ErrInvalid
         /\ collector'.operationsTotal =
              Inc(collector.operationsTotal, <<ret'.op, "error">>)
         /\ collector'.errorsTotal =
              Inc(collector.errorsTotal, <<ret'.op, "unknown">>)]_vars

\* truncate was called twice on a filesystem without Truncate
C8_Witness ==
    /\ fs.caps = {}
    /\ ret.op = "truncate"
    /\ ret.err = ErrInvalid
    /\ fs.ncalls = 0
    /\ Val(collector.operationsTotal, <<"truncate", "error">>) = 2
    /\ Val(collector.errorsTotal, <<"truncate", "unknown">>) = 2

\* the call of this step is an Open or OpenFile that the delegate failed
\* with a not-found error
OpenNotFound ==
    /\ Called
    /\ DelegatedOnce
    /\ fs'.last.method \in {"Open", "OpenFile"}
    /\ errorsIs(fs'.last.err, "ErrNotExist")

\* C9: an open failing with a not-found error increments
\* operationsTotal{open,error}, errorsTotal{open,not_found} and
\* notFoundErrorsTotal{open} by one, calls a configured OnError hook once
\* with "open" and the error, and returns the error and no handle.
C9_OpenNotFound ==
    [][OpenNotFound =>
         /\ collector'.operationsTotal =
              Inc(collector.operationsTotal, <<"open", "error">>)
         /\ collector'.errorsTotal =
              Inc(collector.errorsTotal, <<"open", "not_found">>)
         /\ collector'.notFoundErrorsTotal =
              Inc(collector.notFoundErrorsTotal, <<"open">>)
         /\ hooks'.onError =
              IF collector.config.OnError
              THEN Inc(hooks.onError, <<"open", fs'.last.err>>)
              ELSE hooks.onError
         /\ ret'.err = fs'.last.err
         /\ ret'.res = 0
         /\ files' = files]_vars

\* one failed Open of a missing file, wrapped in a PathError, with the
\* OnError hook configured
C9_Witness ==
    /\ ret.op = "open"
    /\ ret.err = Wrap("PathError", ErrNotExist)
    /\ collector.config.OnError
    /\ hooks.onError = (<<"open", ret.err>> :> 1)
    /\ Val(collector.operationsTotal, <<"open", "error">>) = 1
    /\ Val(collector.errorsTotal, <<"open", "not_found">>) = 1
    /\ files = <<>>

\* the flag bits, read off the flag values of SpecFlags
HasWronly(flag) == flag % 2 = 1
HasRdwr(flag) == flag % 4 >= 2
HasAppend(flag) == flag >= O_APPEND

\* C10 as stated: write-only, read-write and append are tested in turn and
\* each test that matches overrides the classification made before it
StatedMode(flag) ==
    LET m1 == IF HasWronly(flag) THEN "write" ELSE "read"
        m2 == IF HasRdwr(flag) THEN "readwrite" ELSE m1
    IN  IF HasAppend(flag) THEN "append" ELSE m2

\* C10 as amended: append overrides the others, and read-write is
\* considered only when write-only is not set
AmendedMode(flag) ==
    IF HasAppend(flag) THEN "append"
    ELSE IF HasWronly(flag) THEN "write"
    ELSE IF HasRdwr(flag) THEN "readwrite"
    ELSE "read"

\* the call of this step is an OpenFile
OpenFileCalled == Called /\ DelegatedOnce /\ fs'.last.method = "OpenFile"

\* C10 as stated: OpenFile records the mode in which each matching later
\* test overrides the earlier ones.
C10_Original ==
    [][OpenFileCalled =>
         collector'.fileOpensTotal =
           Inc(collector.fileOpensTotal, <<StatedMode(fs'.last.args[2])>>)
      ]_vars

\* C10 as amended: OpenFile records "append" when the append flag is set,
\* else "write" when the write-only flag is set, else "readwrite" when the
\* read-write flag is set, else "read".
C10_OpenModeRecorded ==
    [][OpenFileCalled =>
         collector'.fileOpensTotal =
           Inc(collector.fileOpensTotal, <<AmendedMode(fs'.last.args[2])>>)
      ]_vars

\* OpenFile was called with write-only and read-write both set, after one
\* with read-write and append
C10_Witness ==
    /\ fs.last.method = "OpenFile"
    /\ fs.last.args[2] = O_WRONLY + O_RDWR
    /\ Val(collector.fileOpensTotal, <<"write">>) = 1
    /\ Val(collector.fileOpensTotal, <<"append">>) = 1


\* the names an error matches at any depth
Conditions(err) == UNION Range(err)

\* the category the classifier is to give: the first of not-found,
\* permission-denied, timeout that the outcome matches, else unknown
ExpectedCategory(err) ==
    IF err = NoError THEN "none"
    ELSE IF "ErrNotExist" \in Conditions(err) THEN "not_found"
    ELSE IF "ErrPermission" \in Conditions(err) THEN "permission"
    ELSE IF "ErrDeadlineExceeded" \in Conditions(err) THEN "timeout"
    ELSE "unknown"

\* the four error counters of the pull model
ErrorCounters(c) ==
    <<c.errorsTotal, c.notFoundErrorsTotal, c.permissionErrorsTotal,
      c.timeoutErrorsTotal>>

\* the error counters after one more error of category cat in operation op
CountedAs(c, op, cat) ==
    <<Inc(c.errorsTotal, <<op, cat>>),
      IF cat = "not_found" THEN Inc(c.notFoundErrorsTotal, <<op>>)
      ELSE c.notFoundErrorsTotal,
      IF cat = "permission" THEN Inc(c.permissionErrorsTotal, <<op>>)
      ELSE c.permissionErrorsTotal,
      IF cat = "timeout" THEN Inc(c.timeoutErrorsTotal, <<op>>)
      ELSE c.timeoutErrorsTotal>>

\* the call of this step is a Stat / a categorizeError
StatCalled == Called /\ DelegatedOnce /\ fs'.last.method = "Stat"
CategorizeCalled == Called /\ ret'.op = "categorizeError"

\* C11: recordError counts an outcome in exactly one category, the first
\* of not-found, permission-denied, timeout that it matches, else unknown,
\* and the same outcome always in the same one; an absent outcome changes
\* no error counter; categorizeError gives "" for the absent outcome and
\* one of the four categories for any other.
C11_OneCategoryByPriority ==
    [][/\ StatCalled =>
            ErrorCounters(collector') =
              IF fs'.last.err = NoError THEN ErrorCounters(collector)
              ELSE CountedAs(collector, "stat",
                             ExpectedCategory(fs'.last.err))
       /\ CategorizeCalled =>
            IF ret'.err = NoError THEN ret'.res = ""
            ELSE ret'.res \in {"not_found", "permission", "timeout", "unknown"}
      ]_vars

\* an error matching both permission-denied and not-found was classified
\* twice, both times as not-found
C11_Witness ==
    /\ fs.last.err = Join(ErrPermission, ErrNotExist)
    /\ collector.errorsTotal = (<<"stat", "not_found">> :> 2)
    /\ collector.notFoundErrorsTotal = (<<"stat">> :> 2)
    /\ collector.permissionErrorsTotal = <<>>

\* C12: an outcome wrapping or nesting a not-found, permission-denied or
\* timeout condition at any depth is counted by recordError in that
\* condition's category, and categorizeError gives every outcome the
\* category recordError gives it.
C12_WrappedSameCategory ==
    [][/\ (StatCalled /\ fs'.last.err # NoError) =>
            collector'.errorsTotal =
              Inc(collector.errorsTotal,
                  <<"stat", ExpectedCategory(fs'.last.err)>>)
       /\ (CategorizeCalled /\ ret'.err # NoError) =>
            ret'.res = errorTypeOf(ret'.err)
      ]_vars


\* a callback is running for the Measurement of the call of caller t
HookRunning(t) == pc[t] \in {"on_error", "on_operation"}

\* the collector c after all the bookkeeping of recordOperation for the
\* call l: the error counters, the operations counter, the latency and
\* byte observations and the per-path counter
Bookkeeping(c, l) ==
    countOperation(IF l.err # NoError THEN countError(c, l.op, l.err) ELSE c,
                   l.op, l.path, l.bytes, l.err)

\* C13: whenever a callback runs for a Measurement, the collector already
\* holds all the bookkeeping of that Measurement.
C13_HookAfterBookkeeping ==
    \A t \in Threads :
        HookRunning(t) => collector = Bookkeeping(local[t].before.c, local[t])

\* the collector after the call l of the given kind, made from the world w
\* with callbacks that return
wholeCall(w, l) ==
    IF l.kind = "open"
    THEN LET w1 == openPre(w, l.path, l.d, l.err)
         IN  IF l.err = NoError THEN trackFileOpen(w1.c) ELSE w1.c
    ELSE IF l.kind = "mkdir" THEN dirOp(w, "mkdir", l.path, l.d, l.err).c
    ELSE IF l.kind = "close" THEN closePost(w, l.path, l.d, l.err).c
    ELSE recordOperation(w, l.op, l.path, l.d, l.bytes, l.err).c

\* the counters and histograms of the collector
Counters(c) ==
    <<c.operationsTotal, c.fileOpensTotal, c.fileCreatesTotal,
      c.dirOperationsTotal, c.operationDuration, c.readDuration,
      c.writeDuration, c.statDuration, c.openDuration, c.bytesReadTotal,
      c.bytesWrittenTotal, c.readSizeBytes, c.writeSizeBytes, c.errorsTotal,
      c.permissionErrorsTotal, c.notFoundErrorsTotal, c.timeoutErrorsTotal,
      c.pathAccessTotal>>

\* C14: after a callback panicked, every counter and histogram holds the
\* value it would hold had the callback returned.
C14_PanicKeepsCounters ==
    \A t \in Threads :
        pc[t] = "panicked" =>
            Counters(collector) = Counters(wholeCall(local[t].before, local[t]))


\* the operation name under which the call of this step is counted:
\* OpenFile is counted as open, and Lstat as stat on a filesystem without
\* Lstat
CountedName ==
    IF ret'.op = "openfile" THEN "open"
    ELSE IF ret'.op = "lstat" /\ "Lstat" \notin fs.caps THEN "stat"
    ELSE ret'.op

\* the delegate was called in this step and returned an error
DelegateFailed == DelegatedOnce /\ fs'.last.err # NoError

\* C15 as stated: each completed call increments exactly one cell of the
\* operations counter by one, that of its name and status, the status being
\* error exactly when the delegate's outcome is an error.
C15_Original ==
    [][Called =>
         collector'.operationsTotal =
           Inc(collector.operationsTotal,
               <<CountedName, IF DelegateFailed THEN "error" ELSE "success">>)
      ]_vars

\* C15 as amended: each completed call increments exactly one cell of the
\* operations counter by one, that of its name (open for OpenFile, stat for
\* Lstat without Lstat support) and status, the status being error exactly
\* when the call returns an error: the delegate's, or ErrInvalid from an
\* optional operation the filesystem lacks.  The counter's cells add up to
\* the number of completed calls.
C15_OperationsCounted ==
    /\ [][Called =>
            /\ collector'.operationsTotal =
                 Inc(collector.operationsTotal,
                     <<CountedName, StatusOf(ret'.err)>>)
            /\ ret'.err # NoError <=> (DelegateFailed \/ UnsupportedCall)
         ]_vars
    /\ [](SumVec(collector.operationsTotal) = MaxOps - budget)

\* a file was created and written, both successfully, each counted once
C15_Witness ==
    /\ budget = 0
    /\ fs.last.method = "File.Write"
    /\ collector.operationsTotal =
         (<<"create", "success">> :> 1) @@ (<<"write", "success">> :> 1)


\* the byte count the delegate returned in this step, when the call is one
\* of the given handle methods and the count is positive; else 0
BytesReturned(methods) ==
    IF DelegatedOnce /\ fs'.last.method \in methods /\ fs'.last.res > 0
    THEN fs'.last.res ELSE 0

\* C16: with bandwidth metrics enabled, each write on a handle adds the
\* positive byte count it returned to bytesWrittenTotal and each read to
\* bytesReadTotal; a count of 0 and any other operation, an FS-level
\* Truncate with its size included, change neither; with bandwidth metrics
\* disabled both stay 0.
C16_BytesCounted ==
    /\ [][Called =>
            LET on == collector.config.EnableBandwidthMetrics IN
            /\ collector'.bytesWrittenTotal =
                 collector.bytesWrittenTotal +
                 (IF on THEN BytesReturned({"File.Write", "File.WriteAt",
                                            "File.WriteString"}) ELSE 0)
            /\ collector'.bytesReadTotal =
                 collector.bytesReadTotal +
                 (IF on THEN BytesReturned({"File.Read", "File.ReadAt"}) ELSE 0)
         ]_vars
    /\ [](~collector.config.EnableBandwidthMetrics =>
            collector.bytesWrittenTotal = 0 /\ collector.bytesReadTotal = 0)

\* two writes were counted, and an FS-level Truncate to 11 bytes, measured
\* with bytesTransferred = 11, was not
C16_Witness ==
    /\ collector.bytesWrittenTotal = MaxBytes + 11
    /\ collector.bytesReadTotal = 0
    /\ fs.last.method = "Truncate"
    /\ hist.last.op = "truncate"
    /\ hist.last.bytes = 11

\* create("/a.txt") and a write of 11 bytes have been made, in this order,
\* on a freshly wrapped filesystem, and nothing else
WriteMeasured ==
    /\ fs.ncalls = 2
    /\ fs.last.method = "File.Write"
    /\ fs.last.res = 11 /\ fs.last.err = NoError

\* create("/a.txt"), a write of 11 bytes and a close have been made, and
\* then at most a stat("/a.txt")
AfterClose ==
    /\ Len(files) = 1
    /\ hist.closes = <<1>>
    /\ collector.bytesWrittenTotal = 11
    /\ \/ fs.ncalls = 3 /\ fs.last.method = "File.Close"
       \/ fs.ncalls = 4 /\ fs.last.method = "Stat"

\* C18 as stated: in create, write 11 bytes, close, stat the maximum of
\* open handles is 1 when the write is measured and 0 after the close.
C18_Original ==
    /\ WriteMeasured => collector.openFilesMax = 1
    /\ AfterClose => collector.openFilesMax = 0

\* C18 as amended: in create, write 11 bytes, close, stat the maximum of
\* open handles is 1 when the write is measured and still 1 after the
\* close and after the stat, while the number of open handles is back to 0.
C18_MaxKeptAfterClose ==
    /\ WriteMeasured =>
         collector.openFilesMax = 1 /\ collector.openFiles = 1
    /\ AfterClose =>
         collector.openFilesMax = 1 /\ collector.openFiles = 0

\* the whole scenario has run, each of the four operations counted once
C18_Witness ==
    /\ AfterClose
    /\ fs.ncalls = 4
    /\ \A op \in {"create", "write", "close", "stat"} :
         Val(collector.operationsTotal, <<op, "success">>) = 1


\* the observations in the latency histograms: the global one per
\* operation, and the dedicated ones of read, write, stat and open
LatencyObservations(c) ==
    SumVec(c.operationDuration) + c.readDuration + c.writeDuration
      + c.statDuration + c.openDuration

\* the collector with latency metrics enabled, all else equal
WithLatency(c) == [c EXCEPT !.config.EnableLatencyMetrics = TRUE]

\* C17: with latency metrics disabled no latency histogram ever receives
\* an observation, and each call gives one Measurement and increments the
\* operations counter as it would with latency metrics enabled.
C17_NoLatencyObserved ==
    /\ [](~collector.config.EnableLatencyMetrics =>
            LatencyObservations(collector) = 0)
    /\ [][(Called /\ ~collector.config.EnableLatencyMetrics) =>
            /\ Measured
            /\ collector'.operationsTotal =
                 countOperation(WithLatency(collector), hist'.last.op,
                                hist'.last.path, hist'.last.bytes,
                                hist'.last.err).operationsTotal
         ]_vars

\* with latency metrics disabled, an open and a read on the handle, two
\* operations with a dedicated histogram, have been counted
C17_Witness ==
    /\ ~collector.config.EnableLatencyMetrics
    /\ collector.operationsTotal =
         (<<"open", "success">> :> 1) @@ (<<"read", "success">> :> 1)
    /\ fs.last.method = "File.Read"
    /\ LatencyObservations(collector) = 0


\* C19: a collector built from a Config whose enable-latency and
\* enable-bandwidth flags were left unset has latency and bandwidth metrics
\* enabled, as one built from DefaultConfig has: every Measurement is
\* observed in the latency histogram and every positive byte count of a
\* read or write is counted.
C19_UnsetFlagsDefaultOn ==
    /\ collector.config.EnableLatencyMetrics
    /\ collector.config.EnableBandwidthMetrics
    /\ SumVec(collector.operationDuration) = hist.n
    /\ (hist.n > 0 /\ hist.last.op \in {"read", "write"}
          /\ hist.last.bytes > 0)
       => collector.bytesReadTotal + collector.bytesWrittenTotal > 0


\* the spans tracer.Start returned: all but the caller's
TracerSpans == 2..Len(hooks.spans)

\* the calls started so far, the one in progress included
CallsStarted == (MaxOTelCalls - budget) + (IF Idle THEN 0 ELSE 1)

\* C20: with tracing enabled, every call starts exactly one span; the span
\* of a call in progress has not ended and that of every completed call,
\* successful or failed, has ended exactly once; a span is ended only when
\* the Measurement of its call has been recorded, and in no other step
\* than the return of its call.
C20_OneSpanPerCall ==
    /\ [](collector.config.EnableTracing =>
            /\ Len(hooks.spans) = 1 + CallsStarted
            /\ \A i \in TracerSpans :
                 hooks.spans[i].ended =
                   IF ~Idle /\ i = Len(hooks.spans) THEN 0 ELSE 1)
    /\ [][collector.config.EnableTracing =>
            \A i \in TracerSpans :
                hooks'.spans[i].ended # hooks.spans[i].ended
                => /\ hist.n = CallsStarted
                   /\ hist' = hist
                   /\ Called
         ]_vars

\* with tracing enabled a failed Open and a successful Stat have returned,
\* each with its own span ended once
C20_Witness ==
    /\ collector.config.EnableTracing
    /\ Idle /\ budget = 0
    /\ Len(hooks.spans) = 3
    /\ hooks.spans[2].name = "Open" /\ hooks.spans[2].status = "error"
    /\ hooks.spans[3].name = "Stat" /\ hooks.spans[3].status = "unset"
    /\ hooks.spans[2].ended = 1 /\ hooks.spans[3].ended = 1
    /\ hist.n = 2

\* the call of the caller has reached its return statement with an error
\* of the delegate
OTelFailed ==
    /\ pc[1] = "otel_defer"
    /\ local[1].err # NoError
    /\ fs.last.err = local[1].err

\* C21: with tracing enabled, when the delegate call of an FS-level
\* operation or of a handle read, write or close fails, the span of the
\* call has the error status and holds the error as a recorded event.
C21_FailedSpanErrored ==
    (collector.config.EnableTracing /\ OTelFailed) =>
        LET span == hooks.spans[local[1].span]
        IN  /\ span.status = "error"
            /\ span.errors = <<local[1].err>>

\* the delegate call of this step or of the call in progress was a method
\* of a file
HandleCall == \E m \in {"Read", "Write", "Close"}
                       \cup {x[1] : x \in OTelPlainMethods} :
                  fs'.last.method = "File." \o m

\* C22 (push model): when a call on a decorated handle returns, one
\* Measurement has been emitted for it, as for every call before it: the
\* Measurements emitted are as many as the calls that have returned.
C22_HandleCallMeasured ==
    [][(Called /\ HandleCall) => hist'.n = MaxOTelCalls - budget']_vars

\* no handle has been closed more than once
ClosedAtMostOnce == \A h \in Handles : hist.closes[h] <= 1

\* C23: as long as no handle has been closed more than once, openFiles is
\* not negative, in every state of every interleaving of concurrent opens
\* and closes.
C23_CurrentNotNegative == ClosedAtMostOnce => collector.openFiles >= 0

\* the only handle returned has been closed, once, while another caller is
\* inside trackFileOpen, before its Add
C23_Witness ==
    /\ ClosedAtMostOnce
    /\ Len(files) = 1 /\ hist.closes[1] = 1
    /\ \E t \in Threads : pc[t] = "tfo_add"
    /\ collector.openFiles = 0

\* the accesses of path p counted so far in state (c, pcs, ls), with those
\* of the callers that have been admitted and have yet to count theirs
Accesses(p, c, pcs, ls) ==
    SumVec([op \in PathOps |-> Val(c.pathAccessTotal, <<p, op>>)])
    + Cardinality({t \in Threads : /\ pcs[t] \in {"rpa_lock", "rpa_inc"}
                                   /\ ls[t].path = p})

\* this step is the read-locked section of an access of path p
AccessBegins(p) ==
    /\ budget' = budget - 1
    /\ \E t \in Threads : /\ local'[t].path = p
                          /\ local'[t] # local[t] \/ pc'[t] # pc[t]

\* C24: an access of a path that is not tracked, made while the tracked
\* set is below the limit, is admitted, also when other callers are
\* admitting the same path; no admitted access is lost before it is
\* counted; and the path, marked by each of them, is in the tracked set
\* once: a caller marking a path that is already marked leaves the size of
\* the set as it is.
C24_ConcurrentAdmission ==
    [][\A p \in PathPaths :
         /\ (/\ AccessBegins(p)
             /\ p \notin collector.trackedPaths
             /\ Cardinality(collector.trackedPaths)
                  < collector.config.MaxTrackedPaths)
            => Accesses(p, collector', pc', local')
                 = Accesses(p, collector, pc, local) + 1
         /\ Accesses(p, collector', pc', local')
              >= Accesses(p, collector, pc, local)
         /\ (\E t \in Threads : /\ pc[t] = "rpa_lock" /\ pc'[t] # "rpa_lock"
                                 /\ local[t].path = p)
            => /\ p \in collector'.trackedPaths
               /\ Cardinality(collector'.trackedPaths) =
                    Cardinality(collector.trackedPaths \cup {p})
      ]_vars

\* two callers found the same path untracked, both marked it and both
\* counted their access: one slot, two accesses
C24_Witness ==
    /\ Idle
    /\ \A t \in Threads : local[t].path = "/a" /\ ~local[t].tracked
    /\ collector.trackedPaths = {"/a"}
    /\ Val(collector.pathAccessTotal, <<"/a", "stat">>) = NumThreads

InTrackFileOpen(t) == pc[t] \in {"tfo_add", "tfo_load", "tfo_cas"}

\* C25: under fair scheduling every caller inside trackFileOpen leaves it,
\* and at every moment the compare-and-swaps of its call that have failed
\* are no more than the raises of openFilesMax made by other callers
\* since the call began.
C25_TrackFileOpenTerminates ==
    /\ \A t \in Threads : InTrackFileOpen(t) ~> pc[t] = "idle"
    /\ [](\A t \in Threads : local[t].retries <= local[t].raised)

\* a caller whose compare-and-swap failed, because another caller raised
\* openFilesMax after its load, is about to load again
C25_Witness ==
    \E t \in Threads :
        /\ pc[t] = "tfo_load"
        /\ local[t].retries = 1 /\ local[t].raised = 1
        /\ collector.openFilesMax > local[t].max

\* C26: openFilesMax never decreases, whatever the step.
C26_MaxNeverDecreases ==
    [][collector'.openFilesMax >= collector.openFilesMax]_vars

\* openFilesMax was raised, the handle was closed twice, which took
\* openFiles below zero, and an Open that failed has then returned
C26_Witness ==
    /\ collector.openFilesMax = 1
    /\ \E h \in Handles : hist.closes[h] = 2
    /\ collector.openFiles < 0
    /\ ret.op = "open" /\ ret.err = ErrNotExist
    /\ fs.last.method = "Open" /\ fs.last.err = ErrNotExist

\* C28: every snapshot reports an open-files-max gauge that is at least
\* the open-files gauge of the same snapshot.
C28_SnapshotMaxAtLeastCurrent ==
    ret.op = "collect" => ret.res.openFilesMax >= ret.res.openFiles

\* C27: with tracing disabled, the span carried by the caller's context is
\* at every moment as the caller made it: not ended, without status,
\* recorded error or added attribute.
C27_CallerSpanUntouched ==
    ~collector.config.EnableTracing => hooks.spans[1] = NewSpan("caller", "")

Categories == {"not_found", "permission", "timeout", "unknown"}

\* the operation names that label a cell of some counter of c
NamesIn(c) ==
    {k[1] : k \in DOMAIN c.operationsTotal \cup DOMAIN c.errorsTotal
                    \cup DOMAIN c.notFoundErrorsTotal
                    \cup DOMAIN c.permissionErrorsTotal
                    \cup DOMAIN c.timeoutErrorsTotal}

\* C29: between operations, for each operation name, errorsTotal summed
\* over the categories equals operationsTotal{name, error}, and the
\* counters of not-found, permission and timeout errors equal the cells of
\* errorsTotal of their category; a successful operation changes no error
\* counter.
C29_ErrorCountersAgree ==
    /\ [](\A name \in NamesIn(collector) :
            /\ SumVec([cat \in Categories |->
                         Val(collector.errorsTotal, <<name, cat>>)])
                 = Val(collector.operationsTotal, <<name, "error">>)
            /\ Val(collector.notFoundErrorsTotal, <<name>>)
                 = Val(collector.errorsTotal, <<name, "not_found">>)
            /\ Val(collector.permissionErrorsTotal, <<name>>)
                 = Val(collector.errorsTotal, <<name, "permission">>)
            /\ Val(collector.timeoutErrorsTotal, <<name>>)
                 = Val(collector.errorsTotal, <<name, "timeout">>))
    /\ [][(StatCalled /\ fs'.last.err = NoError)
            => ErrorCounters(collector') = ErrorCounters(collector)]_vars

\* a timeout, and then a successful operation, after which the error
\* counters are as they were
C29_Witness ==
    /\ collector.errorsTotal = (<<"stat", "timeout">> :> 1)
    /\ collector.timeoutErrorsTotal = (<<"stat">> :> 1)
    /\ collector.operationsTotal =
         (<<"stat", "error">> :> 1) @@ (<<"stat", "success">> :> 1)
    /\ fs.last.err = NoError

\* the handles that this step's call returned, and those among them that
\* Create returned
HandlesReturned == Len(files') - Len(files)
CreatedReturned ==
    IF HandlesReturned = 1 /\ fs'.last.method = "Create" THEN 1 ELSE 0

\* C30: fileOpensTotal summed over its modes is the number of handles
\* returned, and each call adds to it and to fileCreatesTotal what it
\* returned: a handle from Open, OpenFile or Create adds one open, a handle
\* from Create one create, and a failed call adds nothing.
C30_OpensCountHandles ==
    /\ [](SumVec(collector.fileOpensTotal) = Len(files))
    /\ [][/\ SumVec(collector'.fileOpensTotal)
              = SumVec(collector.fileOpensTotal) + HandlesReturned
           /\ collector'.fileCreatesTotal
              = collector.fileCreatesTotal + CreatedReturned]_vars

====
